---------------------------- MODULE Spec2Model ----------------------------
(***************************************************************************)
(* Forensic timeline reconstructor: the correlation engine                 *)
(* (core/correlator.py), the event model (core/event.py) and the           *)
(* non-browser download analyzer (analysis/non_browser_downloads.py).      *)
(*                                                                         *)
(* A Python str is a sequence of one-character strings, so that lower(),   *)
(* replace(), "in", "+" and join are computed character by character.      *)
(* An Optional[datetime] is << >> (None) or <<t>>, t in whole seconds.     *)
(* correlation_notes None is the empty sequence: the code reads the field  *)
(* only through its truth value ("not notes", "notes or ''"), under which  *)
(* None and "" are the same.                                               *)
(* correlator.py imports the confidence enum under the name                *)
(* ConfidenceLevel and event.py defines it as Confidence; both names are   *)
(* taken to be the one enum LOW < MEDIUM < HIGH.                           *)
(***************************************************************************)
EXTENDS Integers, Sequences, FiniteSets, TLC

----------------------------------------------------------------------------
(* Python str operations                                                   *)

\* str.lower() on one character (ASCII letters).
LowerChar(c) ==
  CASE c = "A" -> "a" [] c = "B" -> "b" [] c = "C" -> "c" [] c = "D" -> "d"
    [] c = "E" -> "e" [] c = "F" -> "f" [] c = "G" -> "g" [] c = "H" -> "h"
    [] c = "I" -> "i" [] c = "J" -> "j" [] c = "K" -> "k" [] c = "L" -> "l"
    [] c = "M" -> "m" [] c = "N" -> "n" [] c = "O" -> "o" [] c = "P" -> "p"
    [] c = "Q" -> "q" [] c = "R" -> "r" [] c = "S" -> "s" [] c = "T" -> "t"
    [] c = "U" -> "u" [] c = "V" -> "v" [] c = "W" -> "w" [] c = "X" -> "x"
    [] c = "Y" -> "y" [] c = "Z" -> "z" [] OTHER -> c

\* s.lower()
Lower(s) == [i \in 1..Len(s) |-> LowerChar(s[i])]

\* sub occurs in s from position i + 1 on.
OccursAt(sub, s, i) == \A k \in 1..Len(sub) : s[i + k] = sub[k]

\* sub in s
Contains(sub, s) == \E i \in 0..(Len(s) - Len(sub)) : OccursAt(sub, s, i)

\* s.replace(old, ''): every non-overlapping occurrence, left to right.
RECURSIVE Remove(_, _)
Remove(s, old) ==
  IF Len(s) < Len(old) THEN s
  ELSE IF OccursAt(old, s, 0)
       THEN Remove(SubSeq(s, Len(old) + 1, Len(s)), old)
       ELSE <<s[1]>> \o Remove(Tail(s), old)

\* sep.join(list)
RECURSIVE Join(_, _)
Join(sep, list) ==
  IF list = << >> THEN << >>
  ELSE IF Len(list) = 1 THEN list[1]
       ELSE list[1] \o sep \o Join(sep, Tail(list))

\* any(p in s for p in patterns)
ContainsAny(patterns, s) == \E k \in 1..Len(patterns) : Contains(patterns[k], s)

\* Number of positions at which sub occurs in s.
Occurrences(sub, s) ==
  Cardinality({i \in 0..(Len(s) - Len(sub)) : OccursAt(sub, s, i)})

\* pre is a prefix of s.
IsPrefix(pre, s) == Len(pre) <= Len(s) /\ OccursAt(pre, s, 0)

----------------------------------------------------------------------------
(* core/event.py                                                           *)

None == << >>

\* EventType, and SYSTEM_STARTUP as the startup/shutdown collector names it.
EventTypes ==
  {"FILE_REFERENCE", "PROGRAM_EXECUTION", "USER_INTENT", "SYSTEM_EVENT",
   "FILE_ACQUISITION_INFERRED", "CLIPBOARD_ACTIVITY", "USB_DEVICE_MOUNT",
   "SYSTEM_STARTUP"}

\* The order of the confidence enum: LOW < MEDIUM < HIGH.
Rank(c) == CASE c = "LOW" -> 0 [] c = "MEDIUM" -> 1 [] c = "HIGH" -> 2

\* Event.__init__; correlated, correlation_notes take their defaults, and the
\* object has no _processed attribute yet.
Event(ts, te, ty, subj, obj, desc, src, conf) ==
  [time_start |-> ts, time_end |-> te, event_type |-> ty, subject |-> subj,
   object |-> obj, description |-> desc, source |-> src, confidence |-> conf,
   correlated |-> FALSE, correlation_notes |-> None, processed |-> FALSE]

\* Event.sort_time: time_end or time_start
sort_time(e) == IF e.time_end # None THEN e.time_end ELSE e.time_start

\* TIME_VALIDATION_CONFIG['max_future_drift_minutes']
max_future_drift_minutes == 525600

\* Mutant of is_temporally_valid: a timestamp equal to the limit is rejected.
is_temporally_valid_before(e, current_time, strict_mode) ==
  LET max_future_time ==
        IF strict_mode THEN current_time
        ELSE current_time + max_future_drift_minutes * 60
  IN  /\ ~(e.time_start # None /\ e.time_start[1] >= max_future_time)
      /\ ~(e.time_end # None /\ e.time_end[1] >= max_future_time)

\* Event.is_temporally_valid, with datetime.now() and the strict_mode option
\* as arguments; times are in seconds, the drift in minutes.
is_temporally_valid(e, current_time, strict_mode) ==
  LET max_future_time ==
        IF strict_mode THEN current_time
        ELSE current_time + max_future_drift_minutes * 60
  IN  IF e.time_start # None /\ e.time_start[1] > max_future_time THEN FALSE
      ELSE IF e.time_end # None /\ e.time_end[1] > max_future_time THEN FALSE
      ELSE TRUE

----------------------------------------------------------------------------
(* core/correlator.py: constants and pure functions                        *)

\* TIME_WINDOW = timedelta(minutes=5), in seconds.
TIME_WINDOW == 300

\* Width of a time bucket: minute // 5 * 5, second=0, in seconds.
BucketSeconds == 300

\* ".exe"
suffix_exe == <<".","e","x","e">>

\* ".lnk"
suffix_lnk == <<".","l","n","k">>

\* name_map, in dict order: microsoftedge -> msedge, microsoft.windows.explorer -> explorer,
\* code -> visual studio code, chrome -> google chrome, firefox -> mozilla firefox
name_map ==
  << << <<"m","i","c","r","o","s","o","f","t","e","d","g","e">>,
        <<"m","s","e","d","g","e">> >>,
     << <<"m","i","c","r","o","s","o","f","t",".","w","i","n","d","o","w","s",".","e","x","p","l","o","r","e","r">>,
        <<"e","x","p","l","o","r","e","r">> >>,
     << <<"c","o","d","e">>,
        <<"v","i","s","u","a","l"," ","s","t","u","d","i","o"," ","c","o","d","e">> >>,
     << <<"c","h","r","o","m","e">>,
        <<"g","o","o","g","l","e"," ","c","h","r","o","m","e">> >>,
     << <<"f","i","r","e","f","o","x">>,
        <<"m","o","z","i","l","l","a"," ","f","i","r","e","f","o","x">> >> >>

\* for key, value in name_map.items(): if key in name: return value
RECURSIVE FirstAlias(_, _)
FirstAlias(name, k) ==
  IF k > Len(name_map) THEN name
  ELSE IF Contains(name_map[k][1], name) THEN name_map[k][2]
       ELSE FirstAlias(name, k + 1)

normalize_program_name(name) ==
  IF name = << >> THEN << >>
  ELSE FirstAlias(Remove(Remove(Lower(name), suffix_exe), suffix_lnk), 1)

\* system_paths: system32, syswow64, windows\system, windowsapps,
\* program files\windowsapps, windows\winsxs, windows\servicing
system_paths ==
  << <<"s","y","s","t","e","m","3","2">>,
     <<"s","y","s","w","o","w","6","4">>,
     <<"w","i","n","d","o","w","s","\\","s","y","s","t","e","m">>,
     <<"w","i","n","d","o","w","s","a","p","p","s">>,
     <<"p","r","o","g","r","a","m"," ","f","i","l","e","s","\\","w","i","n","d","o","w","s","a","p","p","s">>,
     <<"w","i","n","d","o","w","s","\\","w","i","n","s","x","s">>,
     <<"w","i","n","d","o","w","s","\\","s","e","r","v","i","c","i","n","g">> >>

\* system_programs: svchost, services, lsass, winlogon, csrss, smss, system, idle,
\* system idle process
system_programs ==
  << <<"s","v","c","h","o","s","t">>,
     <<"s","e","r","v","i","c","e","s">>,
     <<"l","s","a","s","s">>,
     <<"w","i","n","l","o","g","o","n">>,
     <<"c","s","r","s","s">>,
     <<"s","m","s","s">>,
     <<"s","y","s","t","e","m">>,
     <<"i","d","l","e">>,
     <<"s","y","s","t","e","m"," ","i","d","l","e"," ","p","r","o","c","e","s","s">> >>

\* Paths are looked for in object and description, programs in object only.
is_system_activity(event) ==
  LET object_lower == Lower(event.object)
      description_lower == Lower(event.description)
  IN  \/ \E k \in 1..Len(system_paths) :
            \/ Contains(system_paths[k], object_lower)
            \/ Contains(system_paths[k], description_lower)
      \/ \E k \in 1..Len(system_programs) :
            Contains(system_programs[k], object_lower)

\* abs(a - b) <= TIME_WINDOW for two known times.
Abs(x) == IF x < 0 THEN 0 - x ELSE x
WithinWindow(a, b) == Abs(a[1] - b[1]) <= TIME_WINDOW

\* Mutant of calculate_confidence: without the early return of lines 59-60,
\* an event with no sort_time agrees in time with nothing and is scored by
\* its sources.
calculate_confidence_unguarded(event, related) ==
  LET sources == {related[k].source : k \in
                    {j \in 1..Len(related) : related[j].source # event.source}}
      time_agreements ==
        IF sort_time(event) = None THEN 0
        ELSE Cardinality({k \in 1..Len(related) :
                            /\ sort_time(related[k]) # None
                            /\ WithinWindow(sort_time(related[k]),
                                            sort_time(event))})
  IN  IF Cardinality(sources) >= 2 /\ time_agreements >= 1 THEN "HIGH"
      ELSE IF Cardinality(sources) >= 1 \/ time_agreements >= 1 THEN "MEDIUM"
      ELSE "LOW"

\* Mutant of calculate_confidence: one other source and a time agreement
\* give HIGH.
calculate_confidence_one_source(event, related) ==
  LET event_time == sort_time(event)
      sources == {related[k].source : k \in
                    {j \in 1..Len(related) : related[j].source # event.source}}
      time_agreements ==
        Cardinality({k \in 1..Len(related) :
                       /\ sort_time(related[k]) # None
                       /\ WithinWindow(sort_time(related[k]), event_time)})
  IN  IF event_time = None THEN "LOW"
      ELSE IF Cardinality(sources) >= 1 /\ time_agreements >= 1 THEN "HIGH"
      ELSE IF Cardinality(sources) >= 1 \/ time_agreements >= 1 THEN "MEDIUM"
      ELSE "LOW"

\* calculate_confidence(event, related_events); related is a sequence of events.
calculate_confidence(event, related) ==
  LET event_time == sort_time(event)
      sources == {related[k].source : k \in
                    {j \in 1..Len(related) : related[j].source # event.source}}
      time_agreements ==
        Cardinality({k \in 1..Len(related) :
                       /\ sort_time(related[k]) # None
                       /\ WithinWindow(sort_time(related[k]), event_time)})
  IN  IF event_time = None THEN "LOW"
      ELSE IF Cardinality(sources) >= 2 /\ time_agreements >= 1 THEN "HIGH"
      ELSE IF Cardinality(sources) >= 1 \/ time_agreements >= 1 THEN "MEDIUM"
      ELSE "LOW"

\* "Corroborated by: "
CorroboratedBy == <<"C","o","r","r","o","b","o","r","a","t","e","d"," ","b","y",":"," ">>

\* ", "
CommaSpace == <<","," ">>

\* "Associated with "
AssociatedWith == <<"A","s","s","o","c","i","a","t","e","d"," ","w","i","t","h"," ">>

\* " execution"
ExecutionSuffix == <<" ","e","x","e","c","u","t","i","o","n">>

\* "Associated with file access: "
AssociatedWithFile == <<"A","s","s","o","c","i","a","t","e","d"," ","w","i","t","h"," ","f","i","l","e"," ","a","c","c","e","s","s",":"," ">>

\* " | "
PipeSep == <<" ","|"," ">>

\* " | System Activity"
SystemActivityNote == <<" ","|"," ","S","y","s","t","e","m"," ","A","c","t","i","v","i","t","y">>

\* "System"
SubjectSystem == <<"S","y","s","t","e","m">>

\* "User"
SubjectUser == <<"U","s","e","r">>

\* "USER"
SubjectUSER == <<"U","S","E","R">>

----------------------------------------------------------------------------
(* Collected events. Each collector fixes source, event type, confidence,  *)
(* subject and which timestamp it fills in.                                *)

\* "UserAssist Registry"
UserAssist_Registry == <<"U","s","e","r","A","s","s","i","s","t"," ","R","e","g","i","s","t","r","y">>

\* "Windows Prefetch"
Windows_Prefetch == <<"W","i","n","d","o","w","s"," ","P","r","e","f","e","t","c","h">>

\* "Recent Files (.lnk)"
Recent_Files == <<"R","e","c","e","n","t"," ","F","i","l","e","s"," ","(",".","l","n","k",")">>

\* "Registry RunMRU"
Registry_RunMRU == <<"R","e","g","i","s","t","r","y"," ","R","u","n","M","R","U">>

\* "Windows Event Log"
Windows_Event_Log == <<"W","i","n","d","o","w","s"," ","E","v","e","n","t"," ","L","o","g">>

\* "NTFS Metadata"
NTFS_Metadata == <<"N","T","F","S"," ","M","e","t","a","d","a","t","a">>

\* "Chrome Downloads"
Chrome_Downloads == <<"C","h","r","o","m","e"," ","D","o","w","n","l","o","a","d","s">>

\* "Chrome.exe"
obj_Chrome_exe == <<"C","h","r","o","m","e",".","e","x","e">>

\* "chrome.lnk"
obj_chrome_lnk == <<"c","h","r","o","m","e",".","l","n","k">>

\* "chrome"
obj_chrome == <<"c","h","r","o","m","e">>

\* "svchost.exe"
obj_svchost == <<"s","v","c","h","o","s","t",".","e","x","e">>

\* "C:\Downloads\ChromeSetup.exe"
obj_ChromeSetup == <<"C",":","\\","D","o","w","n","l","o","a","d","s","\\","C","h","r","o","m","e","S","e","t","u","p",".","e","x","e">>

\* "C:\Downloads\a.jpg"
obj_a_jpg == <<"C",":","\\","D","o","w","n","l","o","a","d","s","\\","a",".","j","p","g">>

\* "c:\downloads\A.JPG"
obj_A_JPG == <<"c",":","\\","d","o","w","n","l","o","a","d","s","\\","A",".","J","P","G">>

\* "C:\Desktop\b.txt"
obj_b_txt == <<"C",":","\\","D","e","s","k","t","o","p","\\","b",".","t","x","t">>

\* "C:\Temp\c.tmp"
obj_c_tmp == <<"C",":","\\","T","e","m","p","\\","c",".","t","m","p">>

\* "WhatsApp.exe"
obj_WhatsApp == <<"W","h","a","t","s","A","p","p",".","e","x","e">>

\* "NOTEPAD.EXE-D8414F97": PrefetchCollector's program_name, filename[:-3]
obj_NOTEPAD_pf == <<"N","O","T","E","P","A","D",".","E","X","E","-","D","8","4","1","4","F","9","7">>

\* "WhatsApp.lnk"
obj_WhatsApp_lnk == <<"W","h","a","t","s","A","p","p",".","l","n","k">>

\* "Teams.exe"
obj_Teams == <<"T","e","a","m","s",".","e","x","e">>

\* "Event ID 6005"
obj_EventId == <<"E","v","e","n","t"," ","I","D"," ","6","0","0","5">>

\* "System startup event"
desc_startup == <<"S","y","s","t","e","m"," ","s","t","a","r","t","u","p"," ","e","v","e","n","t">>

\* "Recent file reference"
desc_recent == <<"R","e","c","e","n","t"," ","f","i","l","e"," ","r","e","f","e","r","e","n","c","e">>

\* "Program executed (Prefetch)"
desc_prefetch == <<"P","r","o","g","r","a","m"," ","e","x","e","c","u","t","e","d"," ","(","P","r","e","f","e","t","c","h",")">>

\* "File activity detected"
desc_file == <<"F","i","l","e"," ","a","c","t","i","v","i","t","y"," ","d","e","t","e","c","t","e","d">>

\* "Command present in RunMRU"
desc_runmru == <<"C","o","m","m","a","n","d"," ","p","r","e","s","e","n","t"," ","i","n"," ","R","u","n","M","R","U">>

\* "Program executed (UserAssist)"
desc_userassist == <<"P","r","o","g","r","a","m"," ","e","x","e","c","u","t","e","d"," ","(","U","s","e","r","A","s","s","i","s","t",")">>

\* "Downloaded via Chrome"
desc_download == <<"D","o","w","n","l","o","a","d","e","d"," ","v","i","a"," ","C","h","r","o","m","e">>

\* UserAssistCollector: last execution time in time_end.
UserAssistEvent(obj, t) ==
  Event(None, t, "PROGRAM_EXECUTION", SubjectUser, obj, desc_userassist,
        UserAssist_Registry, "HIGH")

\* PrefetchCollector: last run time in time_end.
PrefetchEvent(obj, t) ==
  Event(None, t, "PROGRAM_EXECUTION", SubjectUser, obj, desc_prefetch,
        Windows_Prefetch, "HIGH")

\* RecentFilesCollector: shortcut modification time in time_end.
RecentFilesEvent(obj, t) ==
  Event(None, t, "FILE_REFERENCE", SubjectUser, obj, desc_recent,
        Recent_Files, "LOW")

\* RegistryMRUCollector: key timestamp in time_end.
RegistryMRUEvent(obj, t) ==
  Event(None, t, "USER_INTENT", SubjectUser, obj, desc_runmru,
        Registry_RunMRU, "MEDIUM")

\* FileMetadataCollector: creation time in time_start.
FileMetadataEvent(obj, t) ==
  Event(t, None, "FILE_REFERENCE", SubjectUSER, obj, desc_file,
        NTFS_Metadata, "MEDIUM")

\* BrowserDownloadsCollector: start and end of the download.
BrowserDownloadEvent(obj, t) ==
  Event(t, t, "FILE_REFERENCE", SubjectUSER, obj, desc_download,
        Chrome_Downloads, "HIGH")

\* BrowserDownloadsCollector: a download that took from ts to te.
BrowserDownloadSpan(obj, ts, te) ==
  Event(ts, te, "FILE_REFERENCE", SubjectUSER, obj, desc_download,
        Chrome_Downloads, "HIGH")

\* StartupShutdownLogsCollector: a startup record, subject "System".
StartupEvent(t) ==
  Event(t, None, "SYSTEM_STARTUP", SubjectSystem, obj_EventId, desc_startup,
        Windows_Event_Log, "HIGH")

----------------------------------------------------------------------------
(* State                                                                   *)

VARIABLES
  events,       \* the event list (all_events); an event is its position
  pc,           \* where the caller is: "idle", or inside correlate_events
                \* after the grouping loop ("grouped"), after identity
                \* grouping ("identity"), after time-bucket pairing ("paired"),
                \* after analyze returned ("analyzed"), or after
                \* normalize_program_name returned ("normalized")
  name_groups,  \* correlate_events: normalized name -> positions, in order
  time_groups,  \* correlate_events: bucket start -> positions, in order
  calls,        \* number of correlate_events calls begun
  before,       \* the event list when the current/last call began
  beforePass,   \* the event list when the current/last pass began
  inferred,     \* the list analyze returned last
  time_filter,  \* <<start_time, end_time>> given to analyze last
  analyses,     \* number of analyze calls made
  scenario,     \* which collectors feed the list in this run
  run,          \* main: where the pipeline is and what it has counted
  name,         \* the argument of normalize_program_name
  normalized    \* what normalize_program_name returned for it

vars == <<events, pc, name_groups, time_groups, calls, before, beforePass,
          inferred, time_filter, analyses, scenario, run, name, normalized>>

\* Largest number of collected events, of correlate_events calls and of
\* analyze calls in one run.
MaxEvents == 3
MaxCalls == 2
MaxAnalyses == 1

\* Longest name spelled out of NameChars for normalize_program_name.
MaxNameLen == 5

\* The characters of ".exe" and of the alias key "code", and a capital.
NameChars == {".", "e", "x", "c", "o", "d", "E"}

\* The names normalize_program_name is given: every string of NameChars up
\* to MaxNameLen, and objects as the collectors build them, among them the
\* name of a prefetch file without its ".pf".
Names ==
  UNION {[1..n -> NameChars] : n \in 0..MaxNameLen}
    \cup {obj_Chrome_exe, obj_chrome_lnk, obj_chrome, obj_svchost,
          obj_WhatsApp, obj_WhatsApp_lnk, obj_Teams, obj_a_jpg,
          obj_NOTEPAD_pf}

\* What the collectors can return in a run that exercises correlation: four
\* sources naming Chrome (one of them with no time, one a file in Downloads),
\* a system process, and a startup record; all known times lie in one bucket.
CorrelationPool ==
  { UserAssistEvent(obj_Chrome_exe, <<600>>),
    RecentFilesEvent(obj_chrome_lnk, <<700>>),
    RegistryMRUEvent(obj_chrome, None),
    FileMetadataEvent(obj_ChromeSetup, <<610>>),
    PrefetchEvent(obj_svchost, <<620>>),
    StartupEvent(<<600>>) }

\* What they can return in a run that exercises the analyzer: a file created
\* in Downloads at 1000 and one on the Desktop at 2000, a file elsewhere, a
\* browser download of the Downloads path in other letter case, and program
\* executions 90 s, 300 s and 301 s after 1000 and 301 s before it.
InferencePool ==
  { FileMetadataEvent(obj_a_jpg, <<1000>>),
    FileMetadataEvent(obj_b_txt, <<2000>>),
    FileMetadataEvent(obj_c_tmp, <<1000>>),
    BrowserDownloadEvent(obj_A_JPG, <<990>>),
    UserAssistEvent(obj_WhatsApp, <<1090>>),
    PrefetchEvent(obj_Teams, <<1300>>),
    UserAssistEvent(obj_WhatsApp, <<1301>>),
    PrefetchEvent(obj_Teams, <<699>>),
    UserAssistEvent(obj_Chrome_exe, <<1000>>) }

\* The start_time and end_time arguments tried: absent, or a bound that the
\* creation time 1000 lies inside and 2000 outside, or the other way round.
StartTimes == {None, <<900>>, <<1500>>}
EndTimes == {None, <<1500>>}

\* Events built with neither timestamp next to a timed execution of the same
\* program and a file created in its bucket. Event.__init__ defaults both times to None and correlate_events
\* tests for it (lines 59, 96, 130, 135); the collectors of this repository
\* fill in one of the two.
UnknownTimePool ==
  { UserAssistEvent(obj_WhatsApp, None),
    RecentFilesEvent(obj_WhatsApp_lnk, None),
    PrefetchEvent(obj_svchost, None),
    PrefetchEvent(obj_WhatsApp, <<1090>>),
    FileMetadataEvent(obj_a_jpg, <<1000>>) }

\* What the collectors can return in a run that exercises the window and the
\* bucket edges, all naming Chrome: shortcuts modified at 599 and at 899, a
\* file created at 899 (300 s after the first, in the bucket 600-899), an
\* execution at 900 (301 s after the first, a second into the next bucket),
\* and an execution at 601.
WindowPool ==
  { RecentFilesEvent(obj_chrome_lnk, <<599>>),
    RecentFilesEvent(obj_chrome_lnk, <<899>>),
    FileMetadataEvent(obj_ChromeSetup, <<899>>),
    UserAssistEvent(obj_Chrome_exe, <<900>>),
    PrefetchEvent(obj_Chrome_exe, <<601>>) }

\* The <<start_time, end_time>> pairs analyze is called with: bounds in a
\* run that exercises the analyzer; in main a start_time, the user's or the
\* default, with or without an end_time; else the defaults of its signature.
TimeFilters(sc) ==
  CASE sc = "infer" -> StartTimes \X EndTimes
    [] sc = "main" -> (StartTimes \ {None}) \X EndTimes
    [] OTHER -> {<<None, None>>}

\* datetime.now() when main filters the list.
NowTime == 2000

\* The latest timestamp the lenient filter accepts at NowTime.
LenientLimit == NowTime + max_future_drift_minutes * 60

\* The collectors main runs, in its order, that the pipeline runs model.
MainCollectors == <<"UserAssist", "FileMetadata", "BrowserDownloads">>

\* What each of them can find: executions of WhatsApp before now and a second
\* after it; files created before now, at now, and a second past the drift;
\* downloads of the first file's path that ended before now, at the drift
\* limit, and a second past it.
CollectorPool(c) ==
  CASE c = "UserAssist" ->
         { UserAssistEvent(obj_WhatsApp, <<1090>>),
           UserAssistEvent(obj_WhatsApp, <<NowTime + 1>>) }
    [] c = "FileMetadata" ->
         { FileMetadataEvent(obj_a_jpg, <<1000>>),
           FileMetadataEvent(obj_b_txt, <<NowTime>>),
           FileMetadataEvent(obj_b_txt, <<LenientLimit + 1>>) }
    [] c = "BrowserDownloads" ->
         { BrowserDownloadSpan(obj_A_JPG, <<990>>, <<995>>),
           BrowserDownloadSpan(obj_A_JPG, <<990>>, <<LenientLimit>>),
           BrowserDownloadSpan(obj_A_JPG, <<990>>, <<LenientLimit + 1>>) }

\* The lists collect() can return when the run has room for n more events.
Outputs(c, n) == UNION {[1..k -> CollectorPool(c)] : k \in 0..n}

\* Events to put the validity check to: those above, whose timestamps lie
\* around both limits, and one without timestamps.
ValidityPool ==
  UNION {CollectorPool(MainCollectors[c]) : c \in DOMAIN MainCollectors}
    \cup {UserAssistEvent(obj_WhatsApp, None)}

Pool(sc) ==
  CASE sc = "correlate" -> CorrelationPool
    [] sc = "unknown" -> UnknownTimePool
    [] sc = "valid" -> ValidityPool
    [] sc = "window" -> WindowPool
    [] OTHER -> InferencePool

Positions(evs) == 1..Len(evs)

\* [1, 2, ..., n]
Iota(n) == [i \in 1..n |-> i]

----------------------------------------------------------------------------
(* correlate_events, lines 78-100: the grouping loop                       *)

\* Mutant of time_key: the minute is floored to a multiple of 10.
time_key_wide(t) == t[1] - (t[1] % (2 * BucketSeconds))

\* time_key: event_time with minute floored to a multiple of 5, second 0.
time_key(t) == t[1] - (t[1] % BucketSeconds)

\* Mutant of Unprocessed: the loop skips no event.
UnprocessedNoSkip(evs) == Positions(evs)

\* The events the loop does not skip.
Unprocessed(evs) == {i \in Positions(evs) : ~evs[i].processed}

\* Mutant of BuildNameGroups: the events of earlier calls are grouped again.
BuildNameGroupsAll(evs) ==
  LET keys == {normalize_program_name(evs[i].object) : i \in Positions(evs)}
                \ {<< >>}
      Member(k) ==
        LET In(i) == normalize_program_name(evs[i].object) = k
        IN  SelectSeq(Iota(Len(evs)), In)
  IN  [k \in keys |-> Member(k)]

\* name_groups as the loop of lines 81-100 fills it, in list order.
BuildNameGroups(evs) ==
  LET keys == {normalize_program_name(evs[i].object) : i \in Unprocessed(evs)}
                \ {<< >>}
      Member(k) ==
        LET In(i) == /\ i \in Unprocessed(evs)
                     /\ normalize_program_name(evs[i].object) = k
        IN  SelectSeq(Iota(Len(evs)), In)
  IN  [k \in keys |-> Member(k)]

\* Mutant of BuildTimeGroups: an event without sort_time is keyed like the
\* sort of line 106, by datetime.min.
BuildTimeGroupsAll(evs) ==
  LET key(i) == IF sort_time(evs[i]) = None THEN 0
                ELSE time_key(sort_time(evs[i]))
      keys == {key(i) : i \in Unprocessed(evs)}
      Member(k) ==
        LET In(i) == i \in Unprocessed(evs) /\ key(i) = k
        IN  SelectSeq(Iota(Len(evs)), In)
  IN  [k \in keys |-> Member(k)]

BuildTimeGroups(evs) ==
  LET timed == {i \in Unprocessed(evs) : sort_time(evs[i]) # None}
      keys == {time_key(sort_time(evs[i])) : i \in timed}
      Member(k) ==
        LET In(i) == i \in timed /\ time_key(sort_time(evs[i])) = k
        IN  SelectSeq(Iota(Len(evs)), In)
  IN  [k \in keys |-> Member(k)]

\* Mutant of MarkProcessed: the first loop stores the normalized name in the
\* event.
MarkProcessedNormalizing(evs) ==
  [i \in Positions(evs) |->
     [evs[i] EXCEPT !.processed = TRUE,
                    !.object = normalize_program_name(@)]]

\* event._processed = True (line 100), for every event of the list.
MarkProcessed(evs) == [i \in Positions(evs) |-> [evs[i] EXCEPT !.processed = TRUE]]

----------------------------------------------------------------------------
(* correlate_events, lines 102-119: identity grouping                      *)

Range(f) == {f[x] : x \in DOMAIN f}

\* key=lambda e: e.sort_time or datetime.min; a's key is below b's.
KeyBelow(a, b) ==
  /\ sort_time(b) # None
  /\ sort_time(a) = None \/ sort_time(a)[1] < sort_time(b)[1]

\* list.sort is stable: i goes behind every position whose key is not above.
RECURSIVE InsertSorted(_, _, _)
InsertSorted(evs, sorted, i) ==
  IF sorted = << >> THEN <<i>>
  ELSE IF KeyBelow(evs[i], evs[sorted[1]]) THEN <<i>> \o sorted
       ELSE <<sorted[1]>> \o InsertSorted(evs, Tail(sorted), i)

RECURSIVE SortByTime(_, _)
SortByTime(evs, g) ==
  IF g = << >> THEN << >>
  ELSE InsertSorted(evs, SortByTime(evs, SubSeq(g, 1, Len(g) - 1)), g[Len(g)])

\* Mutant of Escalate: the computed confidence is stored whatever it is.
EscalateAlways(old, new) == new

\* The condition of lines 112-113 and the assignment of line 114.
Escalate(old, new) ==
  IF \/ old = "LOW" /\ new \in {"MEDIUM", "HIGH"}
     \/ old = "MEDIUM" /\ new = "HIGH"
  THEN new ELSE old

\* set(e.source for e in program_events)
GroupSources(evs, g) == {evs[g[k]].source : k \in 1..Len(g)}

\* Mutant of SpansSources: the events of the group are counted, not their
\* distinct sources.
SpansSourcesByCount(evs, g) == Len(g) > 1

\* len(set(e.source for e in program_events)) > 1
SpansSources(evs, g) == Cardinality(GroupSources(evs, g)) > 1

\* The orders in which iterating a set of strings can yield its elements:
\* the order follows the strings' hashes, which are salted per process.
HashOrders(S) ==
  {f \in [1..Cardinality(S) -> S] :
     \A a, b \in 1..Cardinality(S) : a # b => f[a] # f[b]}

\* list(set(...)) under the iteration order `order`.
SetToList(S, order) == LET In(x) == x \in S IN SelectSeq(order, In)

\* f"Corroborated by: {', '.join(sources)}"
CorroborationNote(sources) == CorroboratedBy \o Join(CommaSpace, sources)

\* Mutant of IdentityEvent: correlated is set and the note is not written.
IdentityEventFlagOnly(evs, g, i, order) ==
  LET others == LET Other(j) == j # i IN SelectSeq(g, Other)
      related_events == [k \in 1..Len(others) |-> evs[others[k]]]
      new_confidence == calculate_confidence(evs[i], related_events)
      raised == [evs[i] EXCEPT !.confidence = Escalate(@, new_confidence)]
  IN  IF SpansSources(evs, g) THEN [raised EXCEPT !.correlated = TRUE]
      ELSE raised

\* The body of the loop of line 108 for the event at position i of group g.
IdentityEvent(evs, g, i, order) ==
  LET others == LET Other(j) == j # i IN SelectSeq(g, Other)
      related_events == [k \in 1..Len(others) |-> evs[others[k]]]
      new_confidence == calculate_confidence(evs[i], related_events)
      raised == [evs[i] EXCEPT !.confidence = Escalate(@, new_confidence)]
  IN  IF SpansSources(evs, g)
      THEN [raised EXCEPT
              !.correlated = TRUE,
              !.correlation_notes =
                 CorroborationNote(SetToList(GroupSources(evs, g), order))]
      ELSE raised

\* The sources that some corroboration note of this pass lists.
NoteSources(evs, ng) ==
  UNION {GroupSources(evs, ng[k]) :
           k \in {x \in DOMAIN ng : Len(ng[x]) >= 2 /\ SpansSources(evs, ng[x])}}

\* Groups of fewer than two events are skipped; the others are sorted in place.
SortGroups(evs, ng) ==
  [k \in DOMAIN ng |-> IF Len(ng[k]) < 2 THEN ng[k] ELSE SortByTime(evs, ng[k])]

IdentityGrouping(evs, ng, order) ==
  [i \in Positions(evs) |->
     IF \E k \in DOMAIN ng : Len(ng[k]) >= 2 /\ i \in Range(ng[k])
     THEN IdentityEvent(evs, ng[CHOOSE k \in DOMAIN ng : i \in Range(ng[k])],
                        i, order)
     ELSE evs[i]]

----------------------------------------------------------------------------
(* correlate_events, lines 121-149: time-bucket pairing                    *)

\* Mutant of AppendNote: the fragment is stored over the notes.
AppendNoteOverwrite(notes, fragment) == fragment

\* Lines 140-143 and 146-149: the first note is stored, later ones joined on.
AppendNote(notes, fragment) ==
  IF notes = << >> THEN fragment ELSE notes \o PipeSep \o fragment

RECURSIVE AppendNotes(_, _)
AppendNotes(notes, fragments) ==
  IF fragments = << >> THEN notes
  ELSE AppendNotes(AppendNote(notes, fragments[1]), Tail(fragments))

\* f"Associated with {exec_event.object} execution"
FileNote(exec_event) == AssociatedWith \o exec_event.object \o ExecutionSuffix

\* f"Associated with file access: {file_event.object}"
ExecNote(file_event) == AssociatedWithFile \o file_event.object

\* The test of line 138 (with those of lines 130 and 135).
Pairs(exec_event, file_event) ==
  /\ sort_time(exec_event) # None
  /\ sort_time(file_event) # None
  /\ WithinWindow(sort_time(file_event), sort_time(exec_event))

\* The positions of bucket b holding events of type ty, in bucket order.
OfType(evs, b, ty) ==
  LET Is(j) == evs[j].event_type = ty IN SelectSeq(b, Is)

\* Mutant of PairEvent: an event that has a note of its first partner gains
\* none for the others.
PairEventOnce(evs, b, i) ==
  LET e == evs[i]
      partners ==
        IF e.event_type = "PROGRAM_EXECUTION"
        THEN LET P(j) == Pairs(e, evs[j])
             IN  SelectSeq(OfType(evs, b, "FILE_REFERENCE"), P)
        ELSE IF e.event_type = "FILE_REFERENCE"
        THEN LET P(j) == Pairs(evs[j], e)
             IN  SelectSeq(OfType(evs, b, "PROGRAM_EXECUTION"), P)
        ELSE << >>
      fragment ==
        IF e.event_type = "PROGRAM_EXECUTION"
        THEN ExecNote(evs[partners[1]]) ELSE FileNote(evs[partners[1]])
  IN  IF partners = << >> THEN e
      ELSE [e EXCEPT !.correlated = TRUE,
                     !.correlation_notes = AppendNote(@, fragment)]

\* What the nested loops of lines 128-149 do to the event at position i of
\* bucket b. An event is in one bucket and is an execution or a file
\* reference, so its notes grow by one fragment per partner: in the order of
\* the executions for a file, in the order of the files for an execution.
PairEvent(evs, b, i) ==
  LET e == evs[i]
      partners ==
        IF e.event_type = "PROGRAM_EXECUTION"
        THEN LET P(j) == Pairs(e, evs[j])
             IN  SelectSeq(OfType(evs, b, "FILE_REFERENCE"), P)
        ELSE IF e.event_type = "FILE_REFERENCE"
        THEN LET P(j) == Pairs(evs[j], e)
             IN  SelectSeq(OfType(evs, b, "PROGRAM_EXECUTION"), P)
        ELSE << >>
      fragments ==
        [k \in 1..Len(partners) |->
           IF e.event_type = "PROGRAM_EXECUTION"
           THEN ExecNote(evs[partners[k]]) ELSE FileNote(evs[partners[k]])]
  IN  IF partners = << >> THEN e
      ELSE [e EXCEPT !.correlated = TRUE,
                     !.correlation_notes = AppendNotes(@, fragments)]

TimeBucketPairing(evs, tg) ==
  [i \in Positions(evs) |->
     IF \E k \in DOMAIN tg : Len(tg[k]) >= 2 /\ i \in Range(tg[k])
     THEN PairEvent(evs, tg[CHOOSE k \in DOMAIN tg : i \in Range(tg[k])], i)
     ELSE evs[i]]

----------------------------------------------------------------------------
(* correlate_events, lines 151-156: attribution                            *)

\* Mutant of Attribute: the note of a system event replaces its notes.
AttributeOverwrite(e) ==
  IF is_system_activity(e)
  THEN [e EXCEPT !.subject = SubjectSystem,
                 !.correlation_notes = SystemActivityNote]
  ELSE [e EXCEPT !.subject = SubjectUser]

\* Mutant of Attribution: only correlated events are attributed.
AttributionCorrelatedOnly(evs) ==
  [i \in Positions(evs) |->
     IF evs[i].correlated
     THEN (IF is_system_activity(evs[i])
           THEN [evs[i] EXCEPT !.subject = SubjectSystem,
                               !.correlation_notes = @ \o SystemActivityNote]
           ELSE [evs[i] EXCEPT !.subject = SubjectUser])
     ELSE evs[i]]

\* Mutant of Attribute: a system event already annotated is not annotated
\* again.
AttributeOnce(e) ==
  IF is_system_activity(e)
  THEN [e EXCEPT !.subject = SubjectSystem,
                 !.correlation_notes =
                    IF Contains(SystemActivityNote, @) THEN @
                    ELSE @ \o SystemActivityNote]
  ELSE [e EXCEPT !.subject = SubjectUser]

\* The body of the loop of lines 151-156.
Attribute(e) ==
  IF is_system_activity(e)
  THEN [e EXCEPT !.subject = SubjectSystem,
                 !.correlation_notes = @ \o SystemActivityNote]
  ELSE [e EXCEPT !.subject = SubjectUser]

Attribution(evs) == [i \in Positions(evs) |-> Attribute(evs[i])]

----------------------------------------------------------------------------
(* analysis/non_browser_downloads.py                                       *)

\* candidate_paths: \downloads\, \desktop\
candidate_paths ==
  << <<"\\","d","o","w","n","l","o","a","d","s","\\">>,
     <<"\\","d","e","s","k","t","o","p","\\">> >>

\* Chrome Downloads, Edge Downloads, Brave Downloads, Firefox Downloads
browser_download_sources ==
  << <<"C","h","r","o","m","e"," ","D","o","w","n","l","o","a","d","s">>,
     <<"E","d","g","e"," ","D","o","w","n","l","o","a","d","s">>,
     <<"B","r","a","v","e"," ","D","o","w","n","l","o","a","d","s">>,
     <<"F","i","r","e","f","o","x"," ","D","o","w","n","l","o","a","d","s">> >>

\* whatsapp, telegram, skype, teams, discord, slack, zoom, onedrive, dropbox,
\* googledrive, icloud
app_keywords ==
  << <<"w","h","a","t","s","a","p","p">>,
     <<"t","e","l","e","g","r","a","m">>,
     <<"s","k","y","p","e">>,
     <<"t","e","a","m","s">>,
     <<"d","i","s","c","o","r","d">>,
     <<"s","l","a","c","k">>,
     <<"z","o","o","m">>,
     <<"o","n","e","d","r","i","v","e">>,
     <<"d","r","o","p","b","o","x">>,
     <<"g","o","o","g","l","e","d","r","i","v","e">>,
     <<"i","c","l","o","u","d">> >>

\* "Non-Browser Download Inference"
analyzer_source == <<"N","o","n","-","B","r","o","w","s","e","r"," ","D","o","w","n","l","o","a","d"," ","I","n","f","e","r","e","n","c","e">>

\* "File likely received via "
InferredPrefix == <<"F","i","l","e"," ","l","i","k","e","l","y"," ","r","e","c","e","i","v","e","d"," ","v","i","a"," ">>

\* " (non-browser download inferred)"
InferredSuffix == <<" ","(","n","o","n","-","b","r","o","w","s","e","r"," ","d","o","w","n","l","o","a","d"," ","i","n","f","e","r","r","e","d",")">>

\* self.time_window = timedelta(minutes=5), in seconds.
time_window == 300

is_candidate_file(event) ==
  /\ event.event_type = "FILE_REFERENCE"
  /\ event.source = NTFS_Metadata
  /\ ContainsAny(candidate_paths, Lower(event.object))

IsBrowserSource(src) ==
  \E k \in 1..Len(browser_download_sources) : browser_download_sources[k] = src

\* Mutant of is_browser_download: the paths are compared as written.
is_browser_download_exact(file_path, browser_events) ==
  \E k \in 1..Len(browser_events) :
    /\ browser_events[k].event_type = "FILE_REFERENCE"
    /\ IsBrowserSource(browser_events[k].source)
    /\ browser_events[k].object = file_path

is_browser_download(file_path, browser_events) ==
  \E k \in 1..Len(browser_events) :
    /\ browser_events[k].event_type = "FILE_REFERENCE"
    /\ IsBrowserSource(browser_events[k].source)
    /\ Lower(browser_events[k].object) = Lower(file_path)

\* Mutant of IsCorrelatedApp: the execution time is time_start alone.
IsCorrelatedAppStartOnly(file_time, event) ==
  /\ event.event_type = "PROGRAM_EXECUTION"
  /\ ContainsAny(app_keywords, Lower(event.object))
  /\ event.time_start # None
  /\ Abs(event.time_start[1] - file_time[1]) <= time_window

\* Mutant of IsCorrelatedApp: the window excludes its edge.
IsCorrelatedAppExclusive(file_time, event) ==
  LET app_time == IF event.time_end # None THEN event.time_end
                  ELSE event.time_start
  IN  /\ event.event_type = "PROGRAM_EXECUTION"
      /\ ContainsAny(app_keywords, Lower(event.object))
      /\ app_time # None
      /\ Abs(app_time[1] - file_time[1]) < time_window

\* The test of lines 54-67 for one event of app_events.
IsCorrelatedApp(file_time, event) ==
  LET app_time == IF event.time_end # None THEN event.time_end
                  ELSE event.time_start
  IN  /\ event.event_type = "PROGRAM_EXECUTION"
      /\ ContainsAny(app_keywords, Lower(event.object))
      /\ app_time # None
      /\ Abs(app_time[1] - file_time[1]) <= time_window

\* Mutant of find_correlated_app: of the events that pass, the one nearest
\* in time to the file gives its object.
find_correlated_app_nearest(file_time, app_events) ==
  LET near == {k \in 1..Len(app_events) :
                 IsCorrelatedApp(file_time, app_events[k])}
      Gap(k) == Abs(sort_time(app_events[k])[1] - file_time[1])
  IN  IF near = {} THEN None
      ELSE app_events[CHOOSE k \in near :
                        \A j \in near :
                          Gap(k) < Gap(j) \/ (Gap(k) = Gap(j) /\ k <= j)].object

\* The object of the first event of app_events that passes, else None.
RECURSIVE find_correlated_app(_, _)
find_correlated_app(file_time, app_events) ==
  IF app_events = << >> THEN None
  ELSE IF IsCorrelatedApp(file_time, app_events[1]) THEN app_events[1].object
       ELSE find_correlated_app(file_time, Tail(app_events))

\* The Event of lines 118-127.
InferredEvent(file_event, correlated_app) ==
  Event(file_event.time_start, None, "FILE_ACQUISITION_INFERRED", SubjectUser,
        file_event.object, InferredPrefix \o correlated_app \o InferredSuffix,
        analyzer_source, "MEDIUM")

\* The checks of lines 94-111 that let the loop go on to look for an app.
PassesFilters(file_event, browser_download_events, start_time, end_time) ==
  /\ is_candidate_file(file_event)
  /\ file_event.time_start # None
  /\ ~(start_time # None /\ file_event.time_start[1] < start_time[1])
  /\ ~(end_time # None /\ file_event.time_start[1] > end_time[1])
  /\ ~is_browser_download(file_event.object, browser_download_events)

\* The loop of lines 93-129 over file_events.
RECURSIVE InferLoop(_, _, _, _, _)
InferLoop(file_events, browser_download_events, app_events, start_time, end_time) ==
  IF file_events = << >> THEN << >>
  ELSE LET file_event == file_events[1]
           rest == InferLoop(Tail(file_events), browser_download_events,
                             app_events, start_time, end_time)
           correlated_app ==
             find_correlated_app(file_event.time_start, app_events)
       IN  IF /\ PassesFilters(file_event, browser_download_events,
                               start_time, end_time)
              /\ correlated_app # << >>
           THEN <<InferredEvent(file_event, correlated_app)>> \o rest
           ELSE rest

analyze(evs, start_time, end_time) ==
  LET IsFile(e) == e.event_type = "FILE_REFERENCE" /\ e.source = NTFS_Metadata
      IsDownload(e) == /\ e.event_type = "FILE_REFERENCE"
                       /\ IsBrowserSource(e.source)
      IsApp(e) == e.event_type = "PROGRAM_EXECUTION"
  IN  InferLoop(SelectSeq(evs, IsFile), SelectSeq(evs, IsDownload),
                SelectSeq(evs, IsApp), start_time, end_time)

----------------------------------------------------------------------------
(* Actions                                                                 *)

\* main moves on to its next stage; elsewhere there are no stages.
Advance(stage) ==
  IF run.stage = "none" THEN run ELSE [run EXCEPT !.stage = stage]

\* The list is still being gathered: the caller has yet to make the call of
\* correlate_events, of analyze or of the filter that the run is about.
MoreToDo ==
  CASE scenario = "infer" -> analyses < MaxAnalyses
    [] scenario = "main" -> FALSE
    [] scenario = "unknown" -> calls = 0
    [] scenario = "valid" -> run.stage = "collect"
    [] OTHER -> calls < MaxCalls

\* A collector returns an event and the caller appends it to the list.
Collect ==
  /\ pc = "idle"
  /\ MoreToDo
  /\ Len(events) < MaxEvents
  /\ \E e \in Pool(scenario) : events' = Append(events, e)
  /\ UNCHANGED <<pc, name_groups, time_groups, calls, before, beforePass,
                 inferred, time_filter, analyses, scenario, run,
                 name, normalized>>

\* Mutant of CorrelateBegin: main calls correlate_events on the collected
\* events, before line 175 filters them.
CorrelateBeginUnfiltered ==
  /\ pc = "idle"
  /\ CASE scenario = "infer" -> FALSE
       [] scenario = "main" ->
            /\ run.stage \in {"collect", "correlate"}
            /\ Len(run.outcomes) = Len(MainCollectors)
            /\ calls = 0
       [] OTHER -> calls < MaxCalls
  /\ name_groups' = BuildNameGroups(events)
  /\ time_groups' = BuildTimeGroups(events)
  /\ events' = MarkProcessed(events)
  /\ before' = events
  /\ beforePass' = events
  /\ calls' = calls + 1
  /\ pc' = "grouped"
  /\ UNCHANGED <<inferred, time_filter, analyses, scenario, run,
                 name, normalized>>

\* correlate_events is entered and its first loop runs (lines 78-100).
CorrelateBegin ==
  /\ pc = "idle"
  /\ CASE scenario = "infer" -> FALSE
       [] scenario = "main" -> run.stage = "correlate"
       [] OTHER -> calls < MaxCalls
  /\ name_groups' = BuildNameGroups(events)
  /\ time_groups' = BuildTimeGroups(events)
  /\ events' = MarkProcessed(events)
  /\ before' = events
  /\ beforePass' = events
  /\ calls' = calls + 1
  /\ pc' = "grouped"
  /\ UNCHANGED <<inferred, time_filter, analyses, scenario, run,
                 name, normalized>>

\* Lines 102-119.
IdentityPass ==
  /\ pc = "grouped"
  /\ \E order \in HashOrders(NoteSources(events, name_groups)) :
       /\ name_groups' = SortGroups(events, name_groups)
       /\ events' = IdentityGrouping(events, name_groups', order)
  /\ beforePass' = events
  /\ pc' = "identity"
  /\ UNCHANGED <<time_groups, calls, before, inferred, time_filter, analyses,
                 scenario, run, name, normalized>>

\* Lines 121-149.
TimeBucketPass ==
  /\ pc = "identity"
  /\ events' = TimeBucketPairing(events, time_groups)
  /\ beforePass' = events
  /\ pc' = "paired"
  /\ UNCHANGED <<name_groups, time_groups, calls, before, inferred,
                 time_filter, analyses, scenario, run, name, normalized>>

\* Lines 151-158: attribution, and the return (the groups are locals).
AttributionPass ==
  /\ pc = "paired"
  /\ events' = Attribution(events)
  /\ beforePass' = events
  /\ name_groups' = << >>
  /\ time_groups' = << >>
  /\ pc' = "idle"
  /\ run' = Advance("analyze")
  /\ UNCHANGED <<calls, before, inferred, time_filter, analyses, scenario,
                 name, normalized>>

\* Mutant of Analyze: the analyzer appends what it infers to the list it was
\* given.
AnalyzeInPlace ==
  /\ pc = "idle"
  /\ CASE scenario = "correlate" -> FALSE
       [] scenario = "main" -> run.stage = "analyze"
       [] scenario = "unknown" -> analyses < MaxAnalyses /\ calls > 0
       [] OTHER -> analyses < MaxAnalyses
  /\ \E tf \in TimeFilters(scenario) :
       /\ inferred' = analyze(events, tf[1], tf[2])
       /\ time_filter' = tf
  /\ events' = events \o inferred'
  /\ analyses' = analyses + 1
  /\ pc' = "analyzed"
  /\ UNCHANGED <<name_groups, time_groups, calls, before, beforePass,
                 scenario, run, name, normalized>>

\* inferred_events = analyzer.analyze(all_events, start_time, end_time)
Analyze ==
  /\ pc = "idle"
  /\ CASE scenario = "correlate" -> FALSE
       [] scenario = "main" -> run.stage = "analyze"
       [] scenario = "unknown" -> analyses < MaxAnalyses /\ calls > 0
       [] OTHER -> analyses < MaxAnalyses
  /\ \E tf \in TimeFilters(scenario) :
       /\ inferred' = analyze(events, tf[1], tf[2])
       /\ time_filter' = tf
  /\ analyses' = analyses + 1
  /\ pc' = "analyzed"
  /\ UNCHANGED <<events, name_groups, time_groups, calls, before, beforePass,
                 scenario, run, name, normalized>>

\* all_events.extend(inferred_events)
ExtendInferred ==
  /\ pc = "analyzed"
  /\ events' = events \o inferred
  /\ pc' = "idle"
  /\ run' = Advance("done")
  /\ UNCHANGED <<name_groups, time_groups, calls, before, beforePass,
                 inferred, time_filter, analyses, scenario, name, normalized>>

\* events = collector.collect(); all_events.extend(events) (lines 159-160).
CollectorReturns ==
  /\ scenario = "main"
  /\ run.stage = "collect"
  /\ Len(run.outcomes) < Len(MainCollectors)
  /\ \E out \in Outputs(MainCollectors[Len(run.outcomes) + 1],
                         MaxEvents - Len(events)) :
       events' = events \o out
  /\ run' = [run EXCEPT !.outcomes = Append(@, "returned")]
  /\ UNCHANGED <<pc, name_groups, time_groups, calls, before, beforePass,
                 inferred, time_filter, analyses, scenario, name, normalized>>

\* Mutant of CollectorRaises: the exception leaves main.
CollectorRaisesUncaught ==
  /\ scenario = "main"
  /\ run.stage = "collect"
  /\ Len(run.outcomes) < Len(MainCollectors)
  /\ run' = [run EXCEPT !.outcomes = Append(@, "raised"), !.stage = "aborted"]
  /\ UNCHANGED <<events, pc, name_groups, time_groups, calls, before,
                 beforePass, inferred, time_filter, analyses, scenario,
                 name, normalized>>

\* collector.collect() raises and the except clause of lines 162-166 records
\* the error and goes on to the next collector.
CollectorRaises ==
  /\ scenario = "main"
  /\ run.stage = "collect"
  /\ Len(run.outcomes) < Len(MainCollectors)
  /\ run' = [run EXCEPT !.outcomes = Append(@, "raised")]
  /\ UNCHANGED <<events, pc, name_groups, time_groups, calls, before,
                 beforePass, inferred, time_filter, analyses, scenario,
                 name, normalized>>

\* Mutant of TemporalFilter: the rejected events are counted and kept.
TemporalFilterCountOnly ==
  /\ run.stage = "collect"
  /\ scenario = "main" => Len(run.outcomes) = Len(MainCollectors)
  /\ LET Valid(e) == is_temporally_valid(e, NowTime, run.strict_mode)
         valid_events == SelectSeq(events, Valid)
     IN  run' = [run EXCEPT !.collected = events,
                           !.valid_events = events,
                           !.future_events_count =
                              Len(events) - Len(valid_events),
                           !.stage = "correlate"]
  /\ UNCHANGED <<events, pc, name_groups, time_groups, calls, before,
                 beforePass, inferred, time_filter, analyses, scenario,
                 name, normalized>>

\* Lines 175-181, once the loop over the collectors has ended.
TemporalFilter ==
  /\ run.stage = "collect"
  /\ scenario = "main" => Len(run.outcomes) = Len(MainCollectors)
  /\ LET Valid(e) == is_temporally_valid(e, NowTime, run.strict_mode)
         valid_events == SelectSeq(events, Valid)
     IN  /\ events' = valid_events
         /\ run' = [run EXCEPT !.collected = events,
                               !.valid_events = valid_events,
                               !.future_events_count =
                                  Len(events) - Len(valid_events),
                               !.stage = "correlate"]
  /\ UNCHANGED <<pc, name_groups, time_groups, calls, before, beforePass,
                 inferred, time_filter, analyses, scenario, name, normalized>>

\* The order in which the loops of lines 102-108 reach the events: the
\* groups of two or more in the order their names were first met, each in
\* its sorted order.
RECURSIVE IdentityOrder(_, _)
IdentityOrder(ng, done) ==
  LET left == {k \in DOMAIN ng : k \notin done}
  IN  IF left = {} THEN << >>
      ELSE LET First(k) == CHOOSE i \in Range(ng[k]) :
                             \A j \in Range(ng[k]) : i <= j
               k == CHOOSE x \in left : \A y \in left : First(x) <= First(y)
           IN  (IF Len(ng[k]) >= 2 THEN ng[k] ELSE << >>)
                 \o IdentityOrder(ng, done \cup {k})

\* The events as an exception leaves them that ends a pass whose full effect
\* would be `full`, after the pass reached the positions in `reached`.
Interrupted(full, reached) ==
  [i \in Positions(events) |-> IF i \in reached THEN full[i] ELSE events[i]]

\* What correlate_events has done to the list when it raises: in the loop
\* of lines 81-100 after marking some events, in the loops of lines 102-119
\* after some events of the groups, at the start of the loops of lines
\* 121-149, or in the loop of lines 151-156 after some events.
RaisedWith(evs) ==
  CASE pc = "idle" ->
         \E n \in 0..(Len(events) - 1) :
           evs = Interrupted(MarkProcessed(events), 1..n)
    [] pc = "grouped" ->
         \E order \in HashOrders(NoteSources(events, name_groups)) :
           LET ng == SortGroups(events, name_groups)
               reach == IdentityOrder(ng, {})
           IN  \E n \in 0..(Len(reach) - 1) :
                 evs = Interrupted(IdentityGrouping(events, ng, order),
                                   {reach[k] : k \in 1..n})
    [] pc = "identity" -> evs = events
    [] pc = "paired" ->
         \E n \in 0..(Len(events) - 1) :
           evs = Interrupted(Attribution(events), 1..n)

\* Mutant of CorrelateRaises: the exception leaves main.
CorrelateRaisesUncaught ==
  /\ scenario = "main"
  /\ run.stage = "correlate"
  /\ RaisedWith(events')
  /\ IF pc = "idle"
     THEN calls' = calls + 1 /\ before' = events
     ELSE UNCHANGED <<calls, before>>
  /\ beforePass' = events
  /\ name_groups' = << >>
  /\ time_groups' = << >>
  /\ pc' = "idle"
  /\ run' = [run EXCEPT !.failed = TRUE, !.stage = "aborted"]
  /\ UNCHANGED <<inferred, time_filter, analyses, scenario, name, normalized>>

\* correlate_events raises and the except clause of lines 187-189 goes on:
\* all_events is not assigned and still names the list the call was given.
CorrelateRaises ==
  /\ scenario = "main"
  /\ run.stage = "correlate"
  /\ RaisedWith(events')
  /\ IF pc = "idle"
     THEN calls' = calls + 1 /\ before' = events
     ELSE UNCHANGED <<calls, before>>
  /\ beforePass' = events
  /\ name_groups' = << >>
  /\ time_groups' = << >>
  /\ pc' = "idle"
  /\ run' = [run EXCEPT !.failed = TRUE, !.stage = "analyze"]
  /\ UNCHANGED <<inferred, time_filter, analyses, scenario, name, normalized>>

\* normalized = normalize_program_name(name)
Normalize ==
  /\ scenario = "normalize"
  /\ pc = "idle"
  /\ normalized' = normalize_program_name(name)
  /\ pc' = "normalized"
  /\ UNCHANGED <<events, name_groups, time_groups, calls, before, beforePass,
                 inferred, time_filter, analyses, scenario, run, name>>

\* main before its first collector runs: all_events = [],
\* collection_errors = []; strict_mode is TIME_VALIDATION_CONFIG's.
NewRun(stage, strict_mode) ==
  [stage |-> stage, strict_mode |-> strict_mode, outcomes |-> << >>,
   collected |-> << >>, valid_events |-> << >>, future_events_count |-> 0,
   failed |-> FALSE]

Start(sc) ==
  /\ events = << >>
  /\ pc = "idle"
  /\ name_groups = << >>
  /\ time_groups = << >>
  /\ calls = 0
  /\ before = << >>
  /\ beforePass = << >>
  /\ inferred = << >>
  /\ time_filter = <<None, None>>
  /\ analyses = 0
  /\ scenario = sc
  /\ run \in {NewRun(IF sc \in {"main", "valid"} THEN "collect" ELSE "none",
                      strict_mode) :
               strict_mode \in IF sc \in {"main", "valid"} THEN BOOLEAN
                               ELSE {FALSE}}
  /\ name \in IF sc = "normalize" THEN Names ELSE {<< >>}
  /\ normalized = << >>

Init == Start("correlate")

Next ==
  \/ Collect
  \/ CorrelateBegin
  \/ IdentityPass
  \/ TimeBucketPass
  \/ AttributionPass

\* Collection and correlate_events, which may be called again on the list.
Spec == Init /\ [][Next]_vars

InitWindow == Start("window")

\* The same, on events that lie around the edges of the window and of the
\* buckets.
SpecWindow == InitWindow /\ [][Next]_vars

InitNormalize == Start("normalize")

NextNormalize == Normalize

\* normalize_program_name applied to a name.
SpecNormalize == InitNormalize /\ [][NextNormalize]_vars

InitUnknown == Start("unknown")

InitInfer == Start("infer")

NextInfer ==
  \/ Collect
  \/ Analyze
  \/ ExtendInferred

NextUnknown ==
  \/ Next
  \/ Analyze
  \/ ExtendInferred

\* correlate_events and analyze on lists that hold events without
\* timestamps.
SpecUnknown == InitUnknown /\ [][NextUnknown]_vars

InitMain == Start("main")

NextMain ==
  \/ CollectorReturns
  \/ CollectorRaises
  \/ TemporalFilter
  \/ CorrelateBegin
  \/ IdentityPass
  \/ TimeBucketPass
  \/ AttributionPass
  \/ CorrelateRaises
  \/ Analyze
  \/ ExtendInferred

\* The pipeline of main, lines 153-245: the collectors in turn, the temporal
\* filter, correlate_events once, analyze once, the extension of the list.
SpecMain == InitMain /\ [][NextMain]_vars

InitValid == Start("valid")

NextValid ==
  \/ Collect
  \/ TemporalFilter

\* A list of events, then the filter of lines 175-181 over it.
SpecValid == InitValid /\ [][NextValid]_vars

\* Collection and analyze, as main runs them: collect, analyze, extend.
SpecInfer == InitInfer /\ [][NextInfer]_vars

----------------------------------------------------------------------------
(* Properties of correlate_events                                          *)

\* A call of correlate_events has just returned: nothing was appended since.
Returned == pc = "idle" /\ calls > 0 /\ Len(events) = Len(before)

\* The events sharing position i's normalized name among those the call groups.
IdentityGroup(evs, i) ==
  LET n == normalize_program_name(evs[i].object)
  IN  {j \in Unprocessed(evs) : normalize_program_name(evs[j].object) = n}

SourcesOf(evs, G) == {evs[j].source : j \in G}

\* The events position i is paired with in its time bucket: the other one of
\* (execution, file reference), both with a known sort_time in one bucket.
Partners(evs, i) ==
  {j \in Unprocessed(evs) :
     /\ i \in Unprocessed(evs)
     /\ {evs[i].event_type, evs[j].event_type}
          = {"PROGRAM_EXECUTION", "FILE_REFERENCE"}
     /\ sort_time(evs[i]) # None /\ sort_time(evs[j]) # None
     /\ time_key(sort_time(evs[i])) = time_key(sort_time(evs[j]))}

\* What calculate_confidence returns for position i of the list evs.
Computed(evs, i) ==
  LET others == LET O(j) == j # i /\ j \in IdentityGroup(evs, i)
                IN  SelectSeq(Iota(Len(evs)), O)
  IN  calculate_confidence(evs[i], [k \in 1..Len(others) |-> evs[others[k]]])

\* C1: at every point of every call of correlate_events, each event's
\* confidence is at least the confidence it had when the call began, under
\* LOW < MEDIUM < HIGH.
C1_MonotonicConfidence ==
  \A i \in Positions(before) :
    Rank(events[i].confidence) >= Rank(before[i].confidence)

\* A call has returned in which one event was raised and another, HIGH before
\* the call, kept HIGH although calculate_confidence gave less for it.
C1_Witness ==
  /\ Returned
  /\ \E i \in Positions(before) :
       Rank(events[i].confidence) > Rank(before[i].confidence)
  /\ \E i \in Unprocessed(before) :
       /\ before[i].confidence = "HIGH"
       /\ Cardinality(IdentityGroup(before, i)) >= 2
       /\ Computed(before, i) # "HIGH"
       /\ events[i].confidence = "HIGH"

\* The list given to the current (or last) call is one a call had returned:
\* every event of it had been processed.
RepeatCall ==
  /\ before # << >>
  /\ \A i \in Positions(before) : before[i].processed

\* C2: in a call of correlate_events on a list an earlier call returned, no
\* event's confidence changes and no event gains a "Corroborated by" or an
\* "Associated with" fragment.
C2_SecondCallIdempotent ==
  RepeatCall =>
    \A i \in Positions(before) :
      /\ events[i].confidence = before[i].confidence
      /\ \/ events[i].correlation_notes = before[i].correlation_notes
         \/ /\ Occurrences(CorroboratedBy, events[i].correlation_notes)
                 = Occurrences(CorroboratedBy, before[i].correlation_notes)
            /\ Occurrences(AssociatedWith, events[i].correlation_notes)
                 = Occurrences(AssociatedWith, before[i].correlation_notes)

\* A second call has returned on a list in which the first call raised a
\* confidence above LOW, corroborated an event and paired an event.
C2_Witness ==
  /\ Returned /\ RepeatCall /\ calls >= 2
  /\ \E i \in Positions(before) :
       Contains(CorroboratedBy, events[i].correlation_notes)
  /\ \E i \in Positions(before) :
       Contains(AssociatedWith, events[i].correlation_notes)

\* C3: an event whose identity group has exactly one source is not set
\* correlated by identity grouping, and where the call leaves it correlated it
\* has a time-bucket partner (execution with file reference).
C3_SingleSourceNotCorroborated ==
  (pc \in {"identity", "paired"} \/ Returned) =>
    \A i \in Unprocessed(before) :
      LET single ==
            Cardinality(SourcesOf(before, IdentityGroup(before, i))) = 1
      IN  /\ (pc = "identity"
                /\ events[i].correlated # beforePass[i].correlated) => ~single
          /\ (events[i].correlated /\ Partners(before, i) = {}) => ~single

\* Identity grouping has run over a group of two events of one source.
C3_Witness ==
  /\ pc = "identity"
  /\ \E i \in Unprocessed(before) :
       /\ Cardinality(IdentityGroup(before, i)) >= 2
       /\ Cardinality(SourcesOf(before, IdentityGroup(before, i))) = 1
       /\ events[i].confidence # before[i].confidence

\* C4: each pass of correlate_events keeps the notes an event had before the
\* pass, when there were any, as a prefix of its notes after the pass.
C4_NotesAppendOnly ==
  \A i \in Positions(beforePass) :
    beforePass[i].correlation_notes # << >> =>
      IsPrefix(beforePass[i].correlation_notes, events[i].correlation_notes)

\* Time-bucket pairing has added a fragment to notes that identity grouping
\* had written.
C4_Witness ==
  /\ pc = "paired"
  /\ \E i \in Positions(beforePass) :
       /\ IsPrefix(CorroboratedBy, beforePass[i].correlation_notes)
       /\ Len(events[i].correlation_notes) > Len(beforePass[i].correlation_notes)

\* C5: an event of a multi-source identity group that also has a time-bucket
\* partner ends the call with notes holding "Corroborated by: " and the
\* group's sources, and one "Associated with" fragment for each partner.
C5_BothEvidence ==
  Returned =>
    \A i \in Unprocessed(before) :
      LET G == IdentityGroup(before, i)
          S == SourcesOf(before, G)
          notes == events[i].correlation_notes
      IN  (Cardinality(S) > 1 /\ Partners(before, i) # {}) =>
            /\ \E order \in HashOrders(S) :
                 Contains(CorroboratedBy \o Join(CommaSpace, order), notes)
            /\ \A j \in Partners(before, i) :
                 Contains(IF before[i].event_type = "FILE_REFERENCE"
                          THEN AssociatedWith \o before[j].object \o ExecutionSuffix
                          ELSE AssociatedWithFile \o before[j].object,
                          notes)

\* A call has returned on a list with an event that is both corroborated by a
\* second source and paired in its bucket.
C5_Witness ==
  /\ Returned
  /\ \E i \in Unprocessed(before) :
       /\ Cardinality(SourcesOf(before, IdentityGroup(before, i))) > 1
       /\ Partners(before, i) # {}

\* C6: when correlate_events has returned, every correlated event has notes.
C6_CorrelatedHasNotes ==
  Returned =>
    \A i \in Positions(events) :
      events[i].correlated => events[i].correlation_notes # << >>

\* A call has returned with an event correlated by identity grouping only
\* and another correlated by pairing only.
C6_Witness ==
  /\ Returned
  /\ \E i \in Positions(before) :
       events[i].correlated /\ ~Contains(AssociatedWith, events[i].correlation_notes)
  /\ \E i \in Positions(before) :
       events[i].correlated /\ ~Contains(CorroboratedBy, events[i].correlation_notes)

\* C7: when correlate_events has returned, every event of the list has subject
\* "System" or "User"; an event made "System" has the notes it had before
\* attribution followed by " | System Activity", an event made "User" has the
\* notes it had before attribution.
C7_AttributionOverwritesSubject ==
  Returned =>
    \A i \in Positions(before) :
      /\ events[i].subject \in {SubjectSystem, SubjectUser}
      /\ events[i].subject = SubjectSystem =>
           events[i].correlation_notes
             = beforePass[i].correlation_notes \o SystemActivityNote
      /\ events[i].subject = SubjectUser =>
           events[i].correlation_notes = beforePass[i].correlation_notes

\* A call has returned on a list holding an uncorrelated event that the
\* collector labelled "System" and that is now "User", and a correlated event
\* that is now "System".
C7_Witness ==
  /\ Returned
  /\ \E i \in Positions(before) :
       /\ before[i].subject = SubjectSystem /\ ~events[i].correlated
       /\ events[i].subject = SubjectUser
  /\ \E i \in Positions(before) :
       /\ events[i].subject = SubjectSystem /\ events[i].correlated
       /\ beforePass[i].correlation_notes # << >>

\* The fragments claim C8 lists: system32, syswow64, windowsapps, winsxs,
\* servicing, svchost, lsass, winlogon, csrss, smss, system idle process,
\* system, services, idle.
ListedFragments ==
  << <<"s","y","s","t","e","m","3","2">>,
     <<"s","y","s","w","o","w","6","4">>,
     <<"w","i","n","d","o","w","s","a","p","p","s">>,
     <<"w","i","n","s","x","s">>,
     <<"s","e","r","v","i","c","i","n","g">>,
     <<"s","v","c","h","o","s","t">>,
     <<"l","s","a","s","s">>,
     <<"w","i","n","l","o","g","o","n">>,
     <<"c","s","r","s","s">>,
     <<"s","m","s","s">>,
     <<"s","y","s","t","e","m"," ","i","d","l","e"," ","p","r","o","c","e","s","s">>,
     <<"s","y","s","t","e","m">>,
     <<"s","e","r","v","i","c","e","s">>,
     <<"i","d","l","e">> >>

\* C8: when correlate_events has returned, an event is "System" exactly when
\* its object or its description contains, in any letter case, one of the
\* listed path fragments or process names.
C8_SystemIffObjectOrDescription ==
  Returned =>
    \A i \in Positions(before) :
      events[i].subject = SubjectSystem
        <=> \/ ContainsAny(ListedFragments, Lower(before[i].object))
            \/ ContainsAny(ListedFragments, Lower(before[i].description))

----------------------------------------------------------------------------
(* Properties of analyze                                                   *)

\* The list analyze was given: the events without what ExtendInferred added.
Analyzed == pc = "analyzed"

\* Position j holds a browser-download event: a FILE_REFERENCE whose source is
\* Chrome, Edge, Brave or Firefox Downloads.
BrowserDownload(j) ==
  /\ events[j].event_type = "FILE_REFERENCE"
  /\ events[j].source \in Range(browser_download_sources)

\* Position i holds a file event whose path is, letter case aside, the object
\* of a browser-download event of the list.
ExplainedByBrowser(i) ==
  \E j \in Positions(events) :
    BrowserDownload(j) /\ Lower(events[j].object) = Lower(events[i].object)

\* Position i holds a candidate file event with creation time inside the
\* bounds given to analyze.
CandidateInBounds(i) ==
  /\ events[i].event_type = "FILE_REFERENCE"
  /\ events[i].source = NTFS_Metadata
  /\ \/ Contains(candidate_paths[1], Lower(events[i].object))
     \/ Contains(candidate_paths[2], Lower(events[i].object))
  /\ events[i].time_start # None
  /\ time_filter[1] # None => events[i].time_start[1] >= time_filter[1][1]
  /\ time_filter[2] # None => events[i].time_start[1] <= time_filter[2][1]

\* Position a holds a messaging or cloud application executed within five
\* minutes of the creation time of the file at position i.
AppNear(a, i) ==
  /\ events[a].event_type = "PROGRAM_EXECUTION"
  /\ \E k \in 1..Len(app_keywords) :
       Contains(app_keywords[k], Lower(events[a].object))
  /\ sort_time(events[a]) # None
  /\ events[i].time_start # None
  /\ sort_time(events[a])[1] - events[i].time_start[1] \in -300..300

\* C9: analyze returns no event for a file whose path is, letter case aside,
\* the object of a browser-download event of the list.
C9_BrowserDownloadGated ==
  Analyzed =>
    \A i \in Positions(events) :
      ExplainedByBrowser(i) =>
        \A k \in 1..Len(inferred) :
          Lower(inferred[k].object) # Lower(events[i].object)

\* analyze has returned on a list with a candidate file in bounds, an
\* application near it, and a browser download of its path in other case.
C9_Witness ==
  /\ Analyzed
  /\ \E i, a \in Positions(events) :
       /\ CandidateInBounds(i) /\ AppNear(a, i) /\ ExplainedByBrowser(i)
       /\ \E j \in Positions(events) :
            /\ BrowserDownload(j)
            /\ events[j].object # events[i].object
            /\ Lower(events[j].object) = Lower(events[i].object)

\* The candidate files of the list for which claim C10 promises an event.
Qualifying ==
  LET Q(i) == /\ CandidateInBounds(i)
              /\ ~ExplainedByBrowser(i)
              /\ \E a \in Positions(events) : AppNear(a, i)
  IN  SelectSeq(Iota(Len(events)), Q)

\* C10: analyze returns one event for each candidate file in bounds that no
\* browser download explains and that has a messaging or cloud application
\* near it, and no other event: of type FILE_ACQUISITION_INFERRED, subject
\* "User", confidence MEDIUM, the analyzer's source, the file's path as
\* object and creation time as time_start, and a description naming the
\* object of an application near the file.
C10_OneInferredPerCandidate ==
  Analyzed =>
    /\ Len(inferred) = Len(Qualifying)
    /\ \A k \in 1..Len(inferred) :
         LET i == Qualifying[k]
             e == inferred[k]
         IN  /\ e.event_type = "FILE_ACQUISITION_INFERRED"
             /\ e.subject = SubjectUser
             /\ e.confidence = "MEDIUM"
             /\ e.source = analyzer_source
             /\ e.object = events[i].object
             /\ e.time_start = events[i].time_start
             /\ e.time_end = None
             /\ \E a \in Positions(events) :
                  /\ AppNear(a, i)
                  /\ e.description
                       = InferredPrefix \o events[a].object \o InferredSuffix

\* analyze has returned one event, for a candidate file inside given bounds
\* that has two applications near it, one of them exactly 300 s away.
C10_Witness ==
  /\ Analyzed
  /\ Len(inferred) = 1
  /\ time_filter[1] # None /\ time_filter[2] # None
  /\ \E i, a, b \in Positions(events) :
       /\ CandidateInBounds(i) /\ ~ExplainedByBrowser(i)
       /\ AppNear(a, i) /\ AppNear(b, i)
       /\ events[a].object # events[b].object
       /\ sort_time(events[b])[1] - events[i].time_start[1] = 300

\* Position a holds a messaging or cloud application with a known execution
\* time (time_end if present, else time_start).
MessagingApp(a) ==
  /\ events[a].event_type = "PROGRAM_EXECUTION"
  /\ \E k \in 1..Len(app_keywords) :
       Contains(app_keywords[k], Lower(events[a].object))
  /\ sort_time(events[a]) # None

\* Seconds between the execution at position a and the creation of the file
\* at position i.
Distance(a, i) ==
  LET d == sort_time(events[a])[1] - events[i].time_start[1]
  IN  IF d < 0 THEN 0 - d ELSE d

\* analyze returned an event for the file at position i.
InferredFor(i) ==
  \E k \in 1..Len(inferred) :
    /\ inferred[k].object = events[i].object
    /\ inferred[k].time_start = events[i].time_start

\* C11: for a candidate file in bounds that no browser download explains, a
\* messaging or cloud application executed exactly 5 minutes from the file's
\* creation makes analyze return an event for the file, and when every such
\* application of the list lies 5 minutes 1 second or more away, before or
\* after, analyze returns none for it.
C11_WindowInclusiveAtFiveMinutes ==
  Analyzed =>
    \A i \in Positions(events) :
      (CandidateInBounds(i) /\ ~ExplainedByBrowser(i)) =>
        /\ (\E a \in Positions(events) :
              MessagingApp(a) /\ Distance(a, i) = time_window)
             => InferredFor(i)
        /\ (\A a \in Positions(events) :
              MessagingApp(a) => Distance(a, i) >= time_window + 1)
             => ~InferredFor(i)

\* analyze has returned an event for a file whose only applications are one
\* exactly 300 s after it and one 301 s from it that precedes in the list.
C11_Witness ==
  /\ Analyzed
  /\ \E i, a, b \in Positions(events) :
       /\ CandidateInBounds(i) /\ ~ExplainedByBrowser(i)
       /\ MessagingApp(a) /\ Distance(a, i) = time_window + 1
       /\ MessagingApp(b) /\ Distance(b, i) = time_window
       /\ a < b
       /\ InferredFor(i)

\* analyze has returned nothing for a file with one application 301 s before
\* its creation and one 301 s after.
C11_OutsideReached ==
  /\ Analyzed
  /\ \E i, a, b \in Positions(events) :
       /\ CandidateInBounds(i) /\ ~ExplainedByBrowser(i)
       /\ MessagingApp(a) /\ MessagingApp(b)
       /\ sort_time(events[a])[1] - events[i].time_start[1] = 0 - (time_window + 1)
       /\ sort_time(events[b])[1] - events[i].time_start[1] = time_window + 1
       /\ inferred = << >>

----------------------------------------------------------------------------
(* Events with neither time_start nor time_end                             *)

\* The event has neither timestamp.
UnknownTime(e) == e.time_start = None /\ e.time_end = None

\* The "Associated with" fragments the notes of position i gained since the
\* current (or last) call began.
AssociatedGained(i) ==
  Occurrences(AssociatedWith, events[i].correlation_notes)
    - Occurrences(AssociatedWith, before[i].correlation_notes)

\* C12: throughout a call of correlate_events, an event with neither
\* timestamp is in no time bucket, its confidence stays what it was when the
\* call began, its notes gain no "Associated with" fragment, and every other
\* event gains at most one such fragment for each partner with a known time.
C12_UnknownTimeExcluded ==
  \A i \in Positions(before) :
    UnknownTime(before[i]) =>
      /\ \A k \in DOMAIN time_groups : i \notin Range(time_groups[k])
      /\ events[i].confidence = before[i].confidence
      /\ AssociatedGained(i) = 0
      /\ \A j \in Positions(before) :
           AssociatedGained(j) <= Cardinality(Partners(before, j))

\* A call has returned on a list where a LOW file reference without
\* timestamps shares its program with an execution from another source, and
\* that execution was paired with a timed file reference.
C12_Witness ==
  /\ Returned
  /\ \E i, j, k \in Unprocessed(before) :
       /\ UnknownTime(before[i])
       /\ before[i].event_type = "FILE_REFERENCE"
       /\ before[i].confidence = "LOW"
       /\ j \in IdentityGroup(before, i)
       /\ before[j].source # before[i].source
       /\ before[j].event_type = "PROGRAM_EXECUTION"
       /\ k \in Partners(before, j)
       /\ AssociatedGained(j) = 1

\* Position i keeps from this state to the next what no pass assigns.
KeepsIdentity(i) ==
  /\ events'[i].time_start = events[i].time_start
  /\ events'[i].time_end = events[i].time_end
  /\ events'[i].event_type = events[i].event_type
  /\ events'[i].object = events[i].object
  /\ events'[i].description = events[i].description
  /\ events'[i].source = events[i].source

\* C13 as claimed: no step of correlate_events or of analyze changes the
\* subject, confidence, correlated, correlation_notes, object, description or
\* source of an event with neither timestamp.
C13_UnknownTimeUnmodified ==
  [][\A i \in Positions(events) :
       UnknownTime(events[i]) =>
         /\ KeepsIdentity(i)
         /\ events'[i].subject = events[i].subject
         /\ events'[i].confidence = events[i].confidence
         /\ events'[i].correlated = events[i].correlated
         /\ events'[i].correlation_notes = events[i].correlation_notes]_vars

\* The identity group of position i in the running call spans several sources.
Corroborated(i) ==
  /\ i \in Unprocessed(before)
  /\ Cardinality(SourcesOf(before, IdentityGroup(before, i))) > 1

\* C13 as amended: every step of correlate_events and of analyze leaves an
\* event with neither timestamp its times, type, object, description, source
\* and confidence. Its correlated flag changes only to true and only in
\* identity grouping of a group of several sources, which then writes its
\* "Corroborated by" note; its notes change otherwise only in attribution,
\* by " | System Activity" when it is classified System; its subject changes
\* only in attribution.
C13_UnknownTimeKeepsEvidence ==
  [][\A i \in Positions(events) :
       UnknownTime(events[i]) =>
         /\ KeepsIdentity(i)
         /\ events'[i].confidence = events[i].confidence
         /\ events'[i].correlated # events[i].correlated =>
              /\ pc = "grouped" /\ Corroborated(i)
              /\ events'[i].correlated
              /\ IsPrefix(CorroboratedBy, events'[i].correlation_notes)
         /\ events'[i].correlation_notes # events[i].correlation_notes =>
              \/ /\ pc = "grouped" /\ Corroborated(i)
                 /\ IsPrefix(CorroboratedBy, events'[i].correlation_notes)
                 /\ ~Contains(AssociatedWith, events'[i].correlation_notes)
              \/ /\ pc = "paired"
                 /\ events'[i].subject = SubjectSystem
                 /\ events'[i].correlation_notes
                      = events[i].correlation_notes \o SystemActivityNote
         /\ events'[i].subject # events[i].subject => pc = "paired"]_vars

\* A call has returned and analyze has run on a list where an event with
\* neither timestamp was marked corroborated with its confidence kept, and
\* another was classified System.
C13_Witness ==
  /\ Returned
  /\ analyses > 0
  /\ \E i, j \in Positions(before) :
       /\ UnknownTime(before[i]) /\ ~before[i].correlated
       /\ events[i].correlated
       /\ events[i].confidence = before[i].confidence
       /\ before[i].confidence = "LOW"
       /\ UnknownTime(before[j])
       /\ events[j].subject = SubjectSystem
       /\ Contains(SystemActivityNote, events[j].correlation_notes)

----------------------------------------------------------------------------
(* Properties of the temporal filter and of the pipeline of main            *)

\* The temporal filter has run.
Filtered == run.stage \notin {"none", "collect"}

\* The limit claim C14 gives: the current time in strict mode, the current
\* time plus the drift in lenient mode.
Limit ==
  IF run.strict_mode THEN NowTime ELSE NowTime + 60 * max_future_drift_minutes

\* Every timestamp the event has is at or before the limit.
WithinLimit(e) ==
  \A t \in {e.time_start, e.time_end} \ {None} : t[1] <= Limit

\* C14: the filter keeps, in order, exactly the events whose every present
\* timestamp is at or before the limit: a timestamp equal to the limit
\* passes and an event without timestamps passes.
C14_ValidIffWithinLimit ==
  Filtered => run.valid_events = SelectSeq(run.collected, WithinLimit)

\* The filter has kept an event with a timestamp equal to the limit and one
\* without timestamps, and has rejected an event for its time_end alone.
C14_Witness ==
  /\ Filtered
  /\ \E e \in Range(run.valid_events) : sort_time(e) = <<Limit>>
  /\ \E e \in Range(run.valid_events) : e.time_start = None /\ e.time_end = None
  /\ \E e \in Range(run.collected) :
       /\ e \notin Range(run.valid_events)
       /\ e.time_start # None /\ e.time_start[1] <= Limit
       /\ e.time_end # None /\ e.time_end[1] = Limit + 1

\* The two events agree on what no pass assigns.
SameIdentity(a, b) ==
  /\ a.time_start = b.time_start /\ a.time_end = b.time_end
  /\ a.event_type = b.event_type /\ a.object = b.object
  /\ a.description = b.description /\ a.source = b.source

\* The collected events that fail temporal validity.
Rejected == {e \in Range(run.collected) : ~WithinLimit(e)}

C16_CollectorFailSoft ==
  [][/\ (Len(run.outcomes') > Len(run.outcomes)
          /\ run.outcomes'[Len(run.outcomes')] = "raised")
         => events' = events /\ run.stage' = "collect"
     /\ Filtered' => Len(run.outcomes') = Len(MainCollectors)
     /\ run.stage' \in {"collect", "correlate", "analyze", "done"}
     /\ run.stage' = "done" => calls' = 1 /\ analyses' = 1]_vars

\* A run is done in which the first collector raised after none had run, the
\* later ones returned events, and correlation marked one of them.
C16_Witness ==
  /\ run.stage = "done"
  /\ run.outcomes[1] = "raised"
  /\ run.outcomes[2] = "returned" /\ run.outcomes[3] = "returned"
  /\ Len(run.valid_events) >= 2
  /\ \E i \in Positions(events) : events[i].correlated

\* What a completed call would have to go on to mark position i of the valid
\* events: an identity group of several sources, or a partner in its bucket.
HasEvidence(i) ==
  \/ Partners(run.valid_events, i) # {}
  \/ Cardinality(SourcesOf(run.valid_events,
                           IdentityGroup(run.valid_events, i))) > 1

\* C17: in main, once correlate_events has raised, the run goes on to analyze
\* and ends with it done; every temporally valid event is still in the list
\* at its position with what no pass assigns; an event is correlated only on
\* the evidence a completed call marks it for, so that what the call did not
\* reach stays uncorrelated; and the inferred events follow the valid ones.
C17_CorrelationFailureDegrades ==
  run.failed =>
    /\ run.stage \in {"analyze", "done"}
    /\ calls = 1
    /\ Len(events) >= Len(run.valid_events)
    /\ \A i \in Positions(run.valid_events) :
         /\ SameIdentity(events[i], run.valid_events[i])
         /\ events[i].correlated => HasEvidence(i)
    /\ (run.stage = "analyze" /\ pc = "idle") => ENABLED Analyze
    /\ run.stage = "done" =>
         /\ analyses = 1
         /\ Len(events) = Len(run.valid_events) + Len(inferred)

\* correlate_events raised before pairing an execution and a file of one
\* bucket, both stay uncorrelated, and analyze went on to infer a download.
C17_Witness ==
  /\ run.failed
  /\ run.stage = "done"
  /\ Len(events) > Len(run.valid_events)
  /\ \E i \in Positions(run.valid_events) :
       /\ Partners(run.valid_events, i) # {}
       /\ ~events[i].correlated
       /\ \A j \in Partners(run.valid_events, i) : ~events[j].correlated

\* A step assigns the subject of an event, or appends " | System Activity".
AttributionTouches ==
  /\ Len(events') = Len(events)
  /\ \E i \in Positions(events) :
       \/ events'[i].subject # events[i].subject
       \/ /\ events'[i].correlation_notes # events[i].correlation_notes
          /\ events'[i].correlation_notes
               = events[i].correlation_notes \o SystemActivityNote

\* A step assigns a confidence, a correlated flag or a note of the identity
\* or pairing pass.
CorrelationTouches ==
  /\ Len(events') = Len(events)
  /\ \E i \in Positions(events) :
       \/ events'[i].confidence # events[i].confidence
       \/ events'[i].correlated # events[i].correlated

\* C18: in main, the filter runs before any call of correlate_events and
\* before analyze; inside the call the identity and pairing passes assign
\* only before attribution starts, and attribution assigns only after both
\* have ended; analyze runs only after the filter and with the call of
\* correlate_events ended; and the list grows after the filter only by the
\* inferred events, once analyze has returned.
C18_PassOrdering ==
  [][/\ (Filtered' /\ ~Filtered) => calls = 0 /\ analyses = 0
     /\ calls' > calls => Filtered /\ analyses = 0
     /\ CorrelationTouches =>
          Filtered /\ calls' = 1 /\ pc \in {"grouped", "identity"}
     /\ AttributionTouches => Filtered /\ calls' = 1 /\ pc = "paired"
     /\ analyses' > analyses =>
          Filtered /\ calls = 1 /\ pc = "idle" /\ run.stage = "analyze"
     /\ (Filtered /\ Len(events') > Len(events)) =>
          /\ pc = "analyzed" /\ analyses = 1 /\ calls = 1
          /\ events' = events \o inferred]_vars

\* A run is done in which the filter rejected an event, the identity pass
\* corroborated a file, attribution then rewrote a subject, and nothing was
\* inferred after them.
C18_Witness ==
  /\ run.stage = "done"
  /\ ~run.failed
  /\ run.future_events_count > 0
  /\ \E i \in Positions(events) :
       /\ events[i].correlated
       /\ events[i].subject = SubjectUser
       /\ run.valid_events[i].subject # SubjectUser

----------------------------------------------------------------------------
(* Frame properties of analyze and correlate_events                        *)

\* The event is as Event's constructor leaves one that analyze builds.
NewlyInferred(r) ==
  /\ r.event_type = "FILE_ACQUISITION_INFERRED"
  /\ r.source = analyzer_source
  /\ r.time_end = None
  /\ r.subject = SubjectUser
  /\ r.confidence = "MEDIUM"
  /\ ~r.correlated
  /\ r.correlation_notes = None
  /\ ~r.processed

\* C19: a call of analyze leaves the list it is given as it was, with the
\* same events in the same order and every field of each unchanged, and
\* every event it returns is one it built, none of them an event of the list.
C19_AnalyzeLeavesInputs ==
  [][analyses' > analyses =>
       /\ events' = events
       /\ \A k \in Positions(inferred') :
            /\ NewlyInferred(inferred'[k])
            /\ inferred'[k] \notin Range(events)]_vars

\* analyze has returned an inferred event for a file that correlate_events
\* had marked and annotated, and the file is in the list as it was.
C19_Witness ==
  /\ scenario = "main"
  /\ pc = "analyzed"
  /\ Len(inferred) >= 1
  /\ \E i \in Positions(events) :
       /\ events[i].object = inferred[1].object
       /\ events[i].correlated
       /\ events[i].correlation_notes # None
       /\ events[i].processed

\* The step is one of a call of correlate_events.
InCall == pc # "idle" \/ pc' # "idle"

\* C20: no step of a call of correlate_events removes, adds or moves an
\* event, and none changes an event's time_start, time_end, event_type,
\* object, description or source: the list the call returns holds the input
\* events in the input order, and only confidence, correlated,
\* correlation_notes and subject can differ.
C20_CorrelateKeepsListAndIdentity ==
  [][InCall =>
       /\ Len(events') = Len(events)
       /\ \A i \in Positions(events) : SameIdentity(events'[i], events[i])]_vars

\* A call has returned with an event whose confidence, correlated flag,
\* note and subject all differ from what it was given.
C20_Witness ==
  /\ Returned
  /\ \E i \in Positions(events) :
       /\ SameIdentity(events[i], before[i])
       /\ events[i].confidence # before[i].confidence
       /\ events[i].correlated # before[i].correlated
       /\ events[i].correlation_notes # before[i].correlation_notes
       /\ events[i].subject # before[i].subject

----------------------------------------------------------------------------
(* Properties of identity grouping and of pairing at the window's and the  *)
(* buckets' edges                                                          *)

\* Positions i and j of the list have known sort_times at most five minutes
\* apart.
InWindow(evs, i, j) ==
  /\ sort_time(evs[i]) # None /\ sort_time(evs[j]) # None
  /\ WithinWindow(sort_time(evs[i]), sort_time(evs[j]))

\* The other members of position i's identity group in the current call.
Related(i) == IdentityGroup(before, i) \ {i}

\* C21: when identity grouping has run, an event none of whose related
\* events has a sort_time within five minutes of its own, whatever their
\* sources, has the confidence it had when the call began.
C21_SourcesCountedInWindowOnly ==
  pc = "identity" =>
    \A i \in Unprocessed(before) :
      (\A j \in Related(i) : ~InWindow(before, i, j))
        => events[i].confidence = before[i].confidence

\* distinct_sources of position i: the sources, other than its own, of the
\* related events within five minutes of it.
DistinctSources(i) ==
  Cardinality({before[j].source :
                 j \in {r \in Related(i) : /\ before[r].source # before[i].source
                                           /\ InWindow(before, i, r)}})

\* time_agreements of position i: its related events within five minutes.
TimeAgreements(i) ==
  Cardinality({j \in Related(i) : InWindow(before, i, j)})

\* The level the escalation rule computes for position i.
ComputedLevel(i) ==
  IF DistinctSources(i) >= 2 /\ TimeAgreements(i) >= 1 THEN "HIGH"
  ELSE IF DistinctSources(i) >= 1 \/ TimeAgreements(i) >= 1 THEN "MEDIUM"
  ELSE "LOW"

\* C22: when identity grouping has run, every member of a group of two or
\* more has the higher of the confidence it had when the call began and the
\* level computed from its distinct_sources and time_agreements: HIGH for
\* two sources and an agreement, else MEDIUM for a source or an agreement,
\* else LOW.
C22_EscalationRule ==
  pc = "identity" =>
    \A i \in Unprocessed(before) :
      Related(i) # {} =>
        events[i].confidence =
          IF Rank(ComputedLevel(i)) > Rank(before[i].confidence)
          THEN ComputedLevel(i) ELSE before[i].confidence

\* The five-minute floor of a known time.
Floor(t) == (t[1] \div BucketSeconds) * BucketSeconds

\* The positions paired with position i in the current call, in list order:
\* the other one of (execution, file reference), both unprocessed with known
\* sort_times of one floor and at most five minutes apart.
PairedWith(i) ==
  LET P(j) == /\ {i, j} \subseteq Unprocessed(before)
              /\ {before[i].event_type, before[j].event_type}
                   = {"PROGRAM_EXECUTION", "FILE_REFERENCE"}
              /\ InWindow(before, i, j)
              /\ Floor(sort_time(before[i])) = Floor(sort_time(before[j]))
  IN  SelectSeq(Iota(Len(before)), P)

\* The fragment position i gains for its partner j.
PairFragment(i, j) ==
  IF before[i].event_type = "PROGRAM_EXECUTION"
  THEN AssociatedWithFile \o before[j].object
  ELSE AssociatedWith \o before[j].object \o ExecutionSuffix

\* C23: when time-bucket pairing has run, the buckets hold the unprocessed
\* events with a known sort_time, each under the five-minute floor of it;
\* an event with partners is correlated and its notes are the notes it had
\* before the pass followed by one fragment per partner, all joined with
\* " | "; an event without partners is as the pass found it.
C23_BucketPairing ==
  pc = "paired" =>
    /\ \A i \in Unprocessed(before) :
         sort_time(before[i]) # None =>
           /\ Floor(sort_time(before[i])) \in DOMAIN time_groups
           /\ \A k \in DOMAIN time_groups :
                i \in Range(time_groups[k]) <=> k = Floor(sort_time(before[i]))
    /\ \A i \in Positions(events) :
         LET partners == PairedWith(i)
             gained == Join(PipeSep, [k \in 1..Len(partners) |->
                                        PairFragment(i, partners[k])])
             had == beforePass[i].correlation_notes
         IN  IF partners = << >> THEN events[i] = beforePass[i]
             ELSE /\ events[i].correlated
                  /\ events[i].correlation_notes =
                       IF had = None THEN gained ELSE had \o PipeSep \o gained

\* Pairing has run on an execution that identity grouping had annotated and
\* that has two files in its bucket: its notes end with a fragment for each.
C23_Witness ==
  /\ pc = "paired"
  /\ \E i \in Positions(events) :
       /\ events[i].event_type = "PROGRAM_EXECUTION"
       /\ Len(PairedWith(i)) = 2
       /\ beforePass[i].correlation_notes # None
       /\ Occurrences(AssociatedWithFile, events[i].correlation_notes) = 2

\* C24: identity grouping of a list gives each member of a group of several
\* sources correlated = TRUE and a note listing every source of the group
\* once, and the list determines the notes: any two runs of the pass over
\* the same list, whatever order the set of sources is iterated in, leave
\* the same events.
C24_StableSourceOrder ==
  pc = "grouped" =>
    LET ng == SortGroups(events, name_groups)
        orders == HashOrders(NoteSources(events, name_groups))
    IN  /\ \A order \in orders :
             \A k \in DOMAIN ng :
               (Len(ng[k]) >= 2
                  /\ Cardinality(GroupSources(events, ng[k])) > 1) =>
                 \A i \in Range(ng[k]) :
                   LET e == IdentityGrouping(events, ng, order)[i]
                   IN  /\ e.correlated
                       /\ \A src \in GroupSources(events, ng[k]) :
                            Occurrences(src, e.correlation_notes) = 1
        /\ \A o1, o2 \in orders :
             IdentityGrouping(events, ng, o1) = IdentityGrouping(events, ng, o2)

----------------------------------------------------------------------------
(* First match in analyze                                                  *)

\* The first position of the list holding an application near the file at
\* position i.
FirstAppNear(i) ==
  CHOOSE a \in Positions(events) :
    AppNear(a, i) /\ \A b \in Positions(events) : AppNear(b, i) => a <= b

\* C25: when analyze has returned, it has returned one event per qualifying
\* candidate file event, and the description of each names the object of the
\* application near the file that comes first in the list, whichever of them
\* is nearest in time.
C25_FirstMatchWins ==
  Analyzed =>
    /\ Len(inferred) = Len(Qualifying)
    /\ \A k \in 1..Len(inferred) :
         inferred[k].description
           = InferredPrefix \o events[FirstAppNear(Qualifying[k])].object
               \o InferredSuffix

\* analyze has returned an event for a file that has two applications near
\* it with different objects; the first in the list is the farther in time.
C25_Witness ==
  /\ Analyzed
  /\ Len(inferred) = 1
  /\ \E i, a, b \in Positions(events) :
       /\ Qualifying = <<i>>
       /\ AppNear(a, i) /\ AppNear(b, i)
       /\ a < b
       /\ events[a].object # events[b].object
       /\ Distance(a, i) > Distance(b, i)
       /\ FirstAppNear(i) = a

----------------------------------------------------------------------------
(* normalize_program_name                                                  *)

\* s ends with suffix.
EndsWith(s, suffix) ==
  Len(suffix) <= Len(s) /\ OccursAt(suffix, s, Len(s) - Len(suffix))

\* s without a trailing ".exe" or ".lnk".
StripSuffix(s) ==
  IF EndsWith(s, suffix_exe) \/ EndsWith(s, suffix_lnk)
  THEN SubSeq(s, 1, Len(s) - Len(suffix_exe))
  ELSE s

\* The result described for a name: lowercase, the trailing suffix stripped,
\* then the alias of the first key of the table that the name contains, or
\* the name itself.
Described(n) ==
  LET stripped == StripSuffix(Lower(n))
      keys == {k \in 1..Len(name_map) : Contains(name_map[k][1], stripped)}
  IN  IF keys = {} THEN stripped
      ELSE name_map[CHOOSE k \in keys : \A j \in keys : k <= j][2]

\* C26: what normalize_program_name returns for a name is the name in
\* lowercase without a trailing ".exe" or ".lnk", replaced by the alias of
\* the first key of the alias table it contains; nothing else is removed.
C26_NormalizeAsDescribed ==
  pc = "normalized" => normalized = Described(name)

----------------------------------------------------------------------------
(* Pairing and the bucket edges; later calls                               *)

\* The events sharing a bucket with position i in the current call that are
\* the other one of (execution, file reference).
BucketMates(i) ==
  {j \in Unprocessed(before) :
     /\ i \in Unprocessed(before)
     /\ {before[i].event_type, before[j].event_type}
          = {"PROGRAM_EXECUTION", "FILE_REFERENCE"}
     /\ sort_time(before[i]) # None /\ sort_time(before[j]) # None
     /\ Floor(sort_time(before[i])) = Floor(sort_time(before[j]))}

\* The number of "Associated with" fragments the pairing pass added to the
\* notes of position i.
FragmentsGained(i) ==
  Occurrences(AssociatedWith, events[i].correlation_notes)
    - Occurrences(AssociatedWith, beforePass[i].correlation_notes)

\* C27: when time-bucket pairing has run, an execution or file reference
\* has gained one fragment for every file reference or execution that has a
\* known sort_time in its own clock-aligned five-minute bucket in this call,
\* and none for any other event: events of adjacent buckets are not
\* associated however close, and no pair of one bucket is rejected.
C27_PairedIffSameBucket ==
  pc = "paired" =>
    \A i \in Positions(events) :
      /\ FragmentsGained(i) = Cardinality(BucketMates(i))
      /\ BucketMates(i) # {} => events[i].correlated
      /\ BucketMates(i) = {} => events[i] = beforePass[i]

\* Pairing has run on a file and an execution a second apart in adjacent
\* buckets, which gained nothing from each other, while the file is paired
\* with an execution of its own bucket 298 seconds from it.
C27_Witness ==
  /\ pc = "paired"
  /\ \E f, x, y \in Positions(events) :
       /\ before[f].event_type = "FILE_REFERENCE"
       /\ before[x].event_type = "PROGRAM_EXECUTION"
       /\ before[y].event_type = "PROGRAM_EXECUTION"
       /\ sort_time(before[x])[1] - sort_time(before[f])[1] = 1
       /\ x \notin BucketMates(f)
       /\ FragmentsGained(x) = 0
       /\ sort_time(before[f])[1] - sort_time(before[y])[1] = 298
       /\ BucketMates(f) = {y}
       /\ FragmentsGained(f) = 1

\* The events of the list that an earlier call handled.
Old == {i \in Positions(before) : before[i].processed}

\* C28: when a call returns, an event that an earlier call handled has the
\* confidence, the correlated flag and the "Corroborated by" and "Associated
\* with" fragments it had when the call began; an event new to the call is
\* raised or corroborated only
\* with another new event in its identity group, its note names the sources
\* of new events only, and it gains pairing fragments only for new events of
\* its bucket.
C28_ProcessedExcluded ==
  Returned =>
    /\ \A i \in Old :
         /\ events[i].confidence = before[i].confidence
         /\ events[i].correlated = before[i].correlated
         /\ Occurrences(CorroboratedBy, events[i].correlation_notes)
              = Occurrences(CorroboratedBy, before[i].correlation_notes)
         /\ Occurrences(AssociatedWith, events[i].correlation_notes)
              = Occurrences(AssociatedWith, before[i].correlation_notes)
    /\ \A i \in Positions(before) \ Old :
         LET sources == SourcesOf(before, IdentityGroup(before, i))
         IN  /\ events[i].confidence # before[i].confidence => Related(i) # {}
             /\ Contains(CorroboratedBy, events[i].correlation_notes)
                  => Cardinality(sources) > 1
             /\ \A o \in Old :
                  before[o].source \notin sources
                    => ~Contains(before[o].source, events[i].correlation_notes)
             /\ Occurrences(AssociatedWith, events[i].correlation_notes)
                  <= Cardinality(BucketMates(i))
             /\ events[i].correlated =>
                  Cardinality(sources) > 1 \/ BucketMates(i) # {}

\* A second call has returned on a list whose first event the first call
\* handled and whose second event was appended since: they share the
\* normalized name and the sort_time and differ in source, the first is as
\* the first call left it and the second is neither raised nor correlated.
C28_Witness ==
  /\ Returned /\ calls = 2
  /\ Len(events) >= 2
  /\ 1 \in Old /\ 2 \notin Old
  /\ normalize_program_name(events[1].object)
       = normalize_program_name(events[2].object)
  /\ events[1].source # events[2].source
  /\ sort_time(events[1]) = sort_time(events[2])
  /\ sort_time(events[1]) # None
  /\ ~events[2].correlated
  /\ events[2].confidence = before[2].confidence
  /\ events[2].correlation_notes = None

\* The number of " | System Activity" fragments in the notes of an event.
SystemFragments(e) == Occurrences(SystemActivityNote, e.correlation_notes)

\* C29: a call of correlate_events that has returned has classified every
\* event of the list, those of earlier calls included: a system event has
\* the subject "System" and one " | System Activity" fragment more than when
\* the call began, so one for each call made with it in the list; any other
\* event has the subject "User" and no such fragment.
C29_AttributionEveryCall ==
  Returned =>
    \A i \in Positions(events) :
      LET began == SystemFragments(before[i])
          ended == SystemFragments(events[i])
      IN  IF is_system_activity(before[i])
          THEN /\ events[i].subject = SubjectSystem
               /\ ended = began + 1
               /\ i \in Old <=> began >= 1
               /\ ended <= calls
          ELSE /\ events[i].subject = SubjectUser
               /\ ended = 0

\* The second call on a list has returned: a system event that was in it
\* for both has two fragments, one appended since the first has one.
C29_Witness ==
  /\ Returned /\ calls = 2
  /\ \E i, j \in Positions(events) :
       /\ i \in Old /\ j \notin Old
       /\ is_system_activity(events[i]) /\ is_system_activity(events[j])
       /\ SystemFragments(events[i]) = 2
       /\ SystemFragments(events[j]) = 1

\* The sources of position i's identity group in the current call.
GroupSourcesOf(i) == SourcesOf(before, IdentityGroup(before, i))

\* C30: an event that a call of correlate_events has raised to HIGH has a
\* known sort_time, an identity group of at least three sources, another
\* member of the group within five minutes of it, and is correlated; an
\* event raised in a group of one source is at MEDIUM.
C30_HighNeedsThreeSources ==
  Returned =>
    \A i \in Positions(before) :
      events[i].confidence # before[i].confidence =>
        /\ events[i].confidence = "HIGH" =>
             /\ sort_time(before[i]) # None
             /\ Cardinality(GroupSourcesOf(i)) >= 3
             /\ \E j \in Related(i) : InWindow(before, i, j)
             /\ events[i].correlated
        /\ Cardinality(GroupSourcesOf(i)) = 1 =>
             events[i].confidence = "MEDIUM"

\* A call has returned that raised a LOW event to HIGH in a group of three
\* sources, one of them within five minutes and one farther away.
C30_Witness ==
  /\ Returned
  /\ \E i \in Positions(before) :
       /\ before[i].confidence = "LOW"
       /\ events[i].confidence = "HIGH"
       /\ Cardinality(GroupSourcesOf(i)) = 3
       /\ \E j, k \in Related(i) :
            InWindow(before, i, j) /\ ~InWindow(before, i, k)



=============================================================================
